---------------------------- MODULE Spec2Model ----------------------------
(***************************************************************************)
(* Model of the energy "explain" core: the story-day generator             *)
(* (src/src/data/storyDay.ts), the explanation engine and the replay       *)
(* simulator (src/src/logic/explainEngine.ts) and the time helpers         *)
(* (utils/time, src/unnamed/part_000).                                     *)
(*                                                                         *)
(* Number representation.  The code works on IEEE doubles that it rounds   *)
(* with toFixed before storing.  The model uses exact integers:            *)
(*   - a stored power (solarKw, homeKw, batteryKw, gridKw) is in           *)
(*     centi-kW, i.e. the toFixed(2) value times 100;                      *)
(*   - a stored socPct is in tenths of a percent (toFixed(1) times 10);    *)
(*   - an unrounded power is in "fine" units of 1e-4 kW (FINE per          *)
(*     centi-kW) and an unrounded SOC in units of 1/16200 percent, chosen  *)
(*     so that a battery power of p fine units held for one 5-minute step  *)
(*     of a 13.5 kWh battery moves the SOC by exactly p units;             *)
(*   - a rounded energy total is in centi-kWh.                             *)
(* Rounding is toFixed's: to the nearest, halves away from zero.           *)
(***************************************************************************)
EXTENDS Integers, Sequences, FiniteSets, TLC

VARIABLES
  profile,        \* generator loop: which solar and home values feed it
  index,          \* generator loop: the loop variable of buildStoryDaySamples
  socPct,         \* generator loop: running (unrounded) SOC, 1/16200 percent
  pushed,         \* generator loop: the sample pushed by the last iteration
  samples,        \* the sample array (storyDaySamples)
  context,        \* the ExplainContext record handed to the core
  call,           \* the last core operation invoked and its arguments
  result          \* what that operation returned

vars == <<profile, index, socPct, pushed, samples, context, call, result>>

genVars == <<profile, index, socPct, pushed>>

-----------------------------------------------------------------------------
(* Program constants *)

MINUTES_PER_DAY == 1440

SAMPLE_STEP_MINUTES == 5

SAMPLE_COUNT == MINUTES_PER_DAY \div SAMPLE_STEP_MINUTES

SOC_START_PCT == 62

MAX_EVENTS == 10

\* fine power units (1e-4 kW) per centi-kW
FINE == 100

\* unrounded SOC units per percent: BATTERY_CAPACITY_KWH = 13.5 and a step of
\* 5/60 h give 1e-4 kW * (5/60) / 13.5 * 100 = 1/16200 percent per fine unit
SOC_UNITS_PER_PCT == 16200

\* unrounded SOC units per tenth of a percent
SOC_UNITS_PER_TENTH == SOC_UNITS_PER_PCT \div 10

\* steps per hour: STEP_HOURS = 5 / 60 = 1 / STEPS_PER_HOUR
STEPS_PER_HOUR == 12

storyDayContext ==
  [ mode              |-> "Time-Based Control",
    backupReservePct  |-> 30,
    peakWindow        |-> [startMin |-> 17 * 60, endMin |-> 21 * 60],
    stormWatchWindow  |-> [startMin |-> 20 * 60 + 30, endMin |-> 21 * 60 + 15],
    stormWatchEnabled |-> TRUE ]

-----------------------------------------------------------------------------
(* Arithmetic helpers *)

Min(a, b) == IF a <= b THEN a ELSE b

Max(a, b) == IF a >= b THEN a ELSE b

Abs(a) == IF a < 0 THEN -a ELSE a

\* Math.min(max, Math.max(min, value))
clamp(value, min, max) == Min(max, Max(min, value))

\* Number((n / d).toFixed(0)) for d > 0: nearest integer, halves away from zero
RoundDiv(n, d) ==
  IF n >= 0 THEN (2 * n + d) \div (2 * d)
            ELSE -((2 * (-n) + d) \div (2 * d))

\* round(value, 2) of a power given in fine units: the result in centi-kW
roundKw(fine) == RoundDiv(fine, FINE)

\* round(socPct, 1) of an unrounded SOC: the result in tenths of a percent
roundSoc(units) == RoundDiv(units, SOC_UNITS_PER_TENTH)

\* Math.round(x) for x = n / d, d > 0: nearest integer, halves towards +infinity
MathRound(n, d) ==
  LET twice == 2 * n + d
      m     == 2 * d
  IN  IF twice >= 0 THEN twice \div m ELSE -(((-twice) + m - 1) \div m)

\* the window test with the end minute included
isInWindowEndIncluded(minute, window) ==
  minute >= window.startMin /\ minute <= window.endMin

isInWindow(minute, window) ==
  minute >= window.startMin /\ minute < window.endMin

-----------------------------------------------------------------------------
(* Time-series generator, src/src/data/storyDay.ts *)

\* solarKwAt and homeKwAt are closed-form expressions in sin, exp and pow of
\* the sample index with no input; the tables hold round(solarKwAt(5i, i), 2)
\* and round(homeKwAt(5i, i), 2) in centi-kW for i = 0 .. 287 (entry i + 1).
SolarKwTable ==
  <<
     0, 0, 0, 0, 0, 0, 0, 0, 0, 0, 0, 0,
     0, 0, 0, 0, 0, 0, 0, 0, 0, 0, 0, 0,
     0, 0, 0, 0, 0, 0, 0, 0, 0, 0, 0, 0,
     0, 0, 0, 0, 0, 0, 0, 0, 0, 0, 0, 0,
     0, 0, 0, 0, 0, 0, 0, 0, 0, 0, 0, 0,
     0, 0, 0, 0, 0, 0, 0, 0, 0, 0, 0, 0,
     0, 0, 0, 0, 0, 0, 0, 0, 0, 0, 0, 0,
     8, 11, 5, 21, 10, 18, 24, 42, 52, 61, 62, 85,
     88, 92, 114, 129, 129, 157, 167, 171, 192, 199, 222, 235,
     243, 253, 274, 276, 293, 310, 311, 341, 351, 367, 364, 387,
     398, 402, 420, 428, 446, 456, 456, 475, 489, 498, 511, 515,
     523, 530, 526, 531, 548, 548, 552, 554, 563, 579, 585, 584,
     588, 592, 588, 591, 593, 582, 593, 582, 581, 598, 598, 591,
     580, 587, 580, 586, 584, 579, 581, 574, 576, 569, 560, 559,
     541, 544, 530, 535, 532, 516, 519, 499, 500, 484, 480, 472,
     453, 446, 448, 423, 421, 408, 386, 372, 365, 347, 343, 326,
     323, 298, 291, 287, 269, 249, 248, 219, 215, 199, 179, 180,
     167, 142, 135, 133, 118, 105, 93, 80, 68, 56, 45, 47,
     34, 27, 27, 6, 8, 11, 0, 0, 0, 0, 0, 0,
     0, 0, 0, 0, 0, 0, 0, 0, 0, 0, 0, 0,
     0, 0, 0, 0, 0, 0, 0, 0, 0, 0, 0, 0,
     0, 0, 0, 0, 0, 0, 0, 0, 0, 0, 0, 0,
     0, 0, 0, 0, 0, 0, 0, 0, 0, 0, 0, 0,
     0, 0, 0, 0, 0, 0, 0, 0, 0, 0, 0, 0
  >>

HomeKwTable ==
  <<
     73, 71, 76, 79, 71, 73, 79, 70, 76, 74, 69, 79,
     75, 81, 77, 71, 70, 79, 78, 77, 74, 77, 74, 75,
     74, 81, 80, 76, 79, 83, 82, 73, 79, 80, 75, 79,
     74, 83, 79, 80, 83, 86, 85, 78, 79, 78, 87, 86,
     77, 79, 84, 79, 86, 82, 80, 90, 83, 91, 88, 84,
     93, 87, 97, 99, 99, 94, 99, 102, 104, 100, 100, 102,
     117, 119, 113, 121, 126, 123, 133, 130, 140, 137, 149, 151,
     151, 159, 164, 162, 167, 173, 170, 178, 181, 188, 184, 185,
     186, 186, 182, 184, 191, 180, 177, 186, 177, 181, 172, 171,
     169, 168, 165, 158, 153, 156, 147, 151, 145, 138, 136, 133,
     135, 130, 130, 135, 133, 128, 130, 132, 127, 129, 129, 125,
     130, 121, 121, 129, 125, 120, 119, 122, 124, 118, 129, 125,
     120, 126, 127, 117, 119, 120, 118, 121, 123, 118, 125, 122,
     127, 120, 117, 118, 127, 127, 125, 125, 128, 125, 122, 124,
     120, 125, 121, 126, 127, 120, 127, 123, 124, 127, 129, 132,
     132, 126, 129, 137, 134, 139, 139, 143, 137, 144, 141, 150,
     151, 148, 154, 153, 165, 165, 167, 165, 170, 182, 181, 183,
     189, 193, 189, 191, 196, 206, 205, 213, 216, 214, 221, 223,
     225, 224, 223, 225, 226, 230, 228, 235, 236, 238, 240, 239,
     239, 241, 233, 234, 233, 231, 230, 230, 225, 224, 223, 218,
     218, 221, 207, 211, 212, 203, 198, 200, 197, 194, 188, 185,
     186, 182, 178, 168, 174, 168, 159, 155, 160, 158, 149, 153,
     148, 139, 144, 139, 133, 131, 129, 123, 122, 124, 113, 113,
     115, 111, 109, 105, 109, 102, 96, 95, 99, 94, 93, 93
  >>

\* The iterations whose battery power is an exact half centi-kW in the reals
\* and whose double is below it: index 109 (09:05), 0.85 * 0.9 < 0.765.
HalfCentDown == {109}

\* The two load profiles the loop is run on: the code's own ("story day",
\* the tables) and "any levels", where solarKwAt is 0 outside
\* sunrise .. sunset and otherwise any of a few levels of its clamp range
\* [0, 7] kW, and homeKwAt is any of a few levels of its clamp range
\* [0.55, 3.6] kW.
Profiles == {"story day", "any levels"}

SolarLevels == {0, 655}

HomeLevels == {55, 355}

solarKwChoices(prof, idx) ==
  LET minute == idx * SAMPLE_STEP_MINUTES
  IN  IF prof = "story day" THEN {SolarKwTable[idx + 1]}
      ELSE IF minute < 7 * 60 \/ minute > 18 * 60 + 30 THEN {0}
      ELSE SolarLevels

homeKwChoices(prof, idx) ==
  IF prof = "story day" THEN {HomeKwTable[idx + 1]} ELSE HomeLevels

\* whether toFixed rounds an exact half centi-kW of battery power down
halfDownChoices(prof, idx) ==
  IF prof = "story day" THEN {idx \in HalfCentDown} ELSE BOOLEAN

\* a reserve that is not the context's: the value of an earlier default
staleReservePct == storyDayContext.backupReservePct - 10

\* storyDayContext.backupReservePct as the generator reads it (in
\* batteryTargetKw, in clampBatteryBySoc and in the loop)
generatorReservePct == storyDayContext.backupReservePct

\* the target with the peak window tested before the storm-watch window
batteryTargetKwPeakFirst(minute, socUnits, solarKw, homeKw) ==
  LET inPeakWindow  == isInWindow(minute, storyDayContext.peakWindow)
      inStormWindow == storyDayContext.stormWatchEnabled
                       /\ isInWindow(minute, storyDayContext.stormWatchWindow)
      peakDischargeCap == IF minute < 19 * 60 THEN 290 ELSE 170
      netLoadKw        == Max(25, homeKw - solarKw + 25)
  IN  IF inPeakWindow THEN
        IF socUnits <= (generatorReservePct + 2) * SOC_UNITS_PER_PCT THEN 0
        ELSE -(Min(peakDischargeCap, netLoadKw) * FINE)
      ELSE IF inStormWindow THEN
        IF socUnits < 70 * SOC_UNITS_PER_PCT THEN 280 * FINE
        ELSE IF socUnits < 77 * SOC_UNITS_PER_PCT THEN 190 * FINE
        ELSE 90 * FINE
      ELSE 0

\* result in fine units; socUnits is the running SOC, solarKw/homeKw centi-kW
batteryTargetKw(minute, socUnits, solarKw, homeKw) ==
  LET peakWindow       == storyDayContext.peakWindow
      stormWatchWindow == storyDayContext.stormWatchWindow
      backupReservePct == generatorReservePct
      inPeakWindow     == isInWindow(minute, peakWindow)
      inStormWindow    == storyDayContext.stormWatchEnabled
                          /\ isInWindow(minute, stormWatchWindow)
      peakDischargeCap == IF minute < 19 * 60 THEN 290 ELSE 170
      netLoadKw        == Max(25, homeKw - solarKw + 25)
      solarSurplus     == solarKw - homeKw
      isSolarChargeWindow == minute >= 9 * 60 /\ minute < 16 * 60 + 30
      \* solarSurplus * chargeFactor in fine units (0.9 or 0.35 per centi-kW)
      chargeFactor     == IF socUnits < 88 * SOC_UNITS_PER_PCT THEN 90 ELSE 35
      overnightDischarge == (minute < 5 * 60 \/ minute >= 22 * 60)
                            /\ socUnits > 56 * SOC_UNITS_PER_PCT
      preDawnDischarge == minute >= 5 * 60 /\ minute < 7 * 60
                          /\ socUnits > 54 * SOC_UNITS_PER_PCT
  IN  IF inStormWindow THEN
        IF socUnits < 70 * SOC_UNITS_PER_PCT THEN 280 * FINE
        ELSE IF socUnits < 77 * SOC_UNITS_PER_PCT THEN 190 * FINE
        ELSE 90 * FINE
      ELSE IF inPeakWindow THEN
        IF socUnits <= (backupReservePct + 2) * SOC_UNITS_PER_PCT THEN 0
        ELSE -(Min(peakDischargeCap, netLoadKw) * FINE)
      ELSE IF isSolarChargeWindow /\ solarSurplus > 20
              /\ socUnits < 94 * SOC_UNITS_PER_PCT THEN
        Min(360 * FINE, solarSurplus * chargeFactor)
      ELSE IF overnightDischarge THEN -(20 * FINE)
      ELSE IF preDawnDischarge THEN -(10 * FINE)
      ELSE 0

\* targetKw and the result in fine units.  maxChargeKw is
\* (100 - socPct) / 100 * 13.5 / (5 / 60) kW, which is exactly the SOC
\* headroom counted in SOC units; likewise maxDischargeKw.
clampBatteryBySoc(targetKw, socUnits) ==
  LET reservePct     == generatorReservePct
      maxChargeKw    == 100 * SOC_UNITS_PER_PCT - socUnits
      maxDischargeKw == socUnits - reservePct * SOC_UNITS_PER_PCT
  IN  IF targetKw > 0 THEN Min(targetKw, Max(0, maxChargeKw))
      ELSE IF targetKw < 0 THEN -Min(Abs(targetKw), Max(0, maxDischargeKw))
      ELSE 0

\* round(value, 2) of the battery power.  solarSurplus * chargeFactor is a
\* product of doubles: when it is exactly half a centi-kW in the reals the
\* double lies just below or just above the half, so toFixed may go either
\* way; halfDown says that it goes down.
roundBatteryKw(fine, halfDown) ==
  IF halfDown /\ fine > 0 /\ fine % FINE = FINE \div 2
  THEN RoundDiv(fine, FINE) - 1
  ELSE RoundDiv(fine, FINE)

\* the residual with the battery term's sign slipped
gridResidualSignSlip(homeKw, solarKw, batteryKw) ==
  roundKw((homeKw - solarKw - batteryKw) * FINE)

\* round(homeKw - solarKw + batteryKw, 2), all in centi-kW
gridResidualKw(homeKw, solarKw, batteryKw) ==
  roundKw((homeKw - solarKw + batteryKw) * FINE)

\* One iteration of the loop of buildStoryDaySamples for the given rounded
\* solarKw and homeKw: the sample it pushes and the SOC it carries on.
genIteration(idx, socUnits, solarKw, homeKw, halfDown) ==
  LET minute      == idx * SAMPLE_STEP_MINUTES
      target0     == batteryTargetKw(minute, socUnits, solarKw, homeKw)
      solarOnlyCap == Max(0, solarKw - homeKw) * FINE
      targetBatteryKw ==
        IF target0 > 0 /\ ~isInWindow(minute, storyDayContext.stormWatchWindow)
        THEN Min(target0, solarOnlyCap) ELSE target0
      batteryKw   == roundBatteryKw(clampBatteryBySoc(targetBatteryKw, socUnits),
                                    halfDown)
      gridKw      == gridResidualKw(homeKw, solarKw, batteryKw)
      socDelta    == batteryKw * FINE
      nextSoc     == clamp(socUnits + socDelta,
                           generatorReservePct * SOC_UNITS_PER_PCT,
                           100 * SOC_UNITS_PER_PCT)
  IN  [ sample |-> [ ts |-> minute, solarKw |-> solarKw, homeKw |-> homeKw,
                     batteryKw |-> batteryKw, gridKw |-> gridKw,
                     socPct |-> roundSoc(nextSoc) ],
        socPct |-> nextSoc ]

\* The loop of buildStoryDaySamples over the iterations lo .. hi - 1, from
\* the loop state st = [socPct, samples] before iteration lo.  The iterations
\* run in index order; the range is halved, and st tested first, only to
\* keep the evaluation shallow.
RECURSIVE buildRange(_, _, _)
buildRange(st, lo, hi) ==
  IF st.socPct < 0 \/ hi <= lo THEN st
  ELSE IF hi = lo + 1 THEN
    LET it == genIteration(lo, st.socPct, SolarKwTable[lo + 1],
                           HomeKwTable[lo + 1], lo \in HalfCentDown)
    IN  [socPct |-> it.socPct, samples |-> Append(st.samples, it.sample)]
  ELSE LET mid == (lo + hi) \div 2
       IN  buildRange(buildRange(st, lo, mid), mid, hi)

\* the loop state when the loop of buildStoryDaySamples ends
storyDayLoopEnd ==
  buildRange([socPct |-> SOC_START_PCT * SOC_UNITS_PER_PCT, samples |-> <<>>],
             0, SAMPLE_COUNT)

buildStoryDaySamples == storyDayLoopEnd.samples

storyDaySamples == buildStoryDaySamples

-----------------------------------------------------------------------------
(* Time helpers, utils/time (src/unnamed/part_000) *)

\* the remainder as JavaScript's % leaves it, negative for a negative minute
normalizeMinuteTruncating(minute) ==
  IF minute >= 0 THEN minute % MINUTES_PER_DAY
  ELSE -((-minute) % MINUTES_PER_DAY)

normalizeMinute(minute) ==
  \* JavaScript % truncates towards zero; negative remainders are wrapped
  LET wrapped == IF minute >= 0 THEN minute % MINUTES_PER_DAY
                 ELSE -((-minute) % MINUTES_PER_DAY)
  IN  IF wrapped < 0 THEN wrapped + MINUTES_PER_DAY ELSE wrapped

\* Math.round(minute / step) * step
clampToStep(minute, step) ==
  IF step <= 0 THEN minute ELSE MathRound(minute, step) * step

\* the label "h:mm AM|PM" as its three parts
minutesToLabel(minute) ==
  LET normalized == normalizeMinute(minute)
      hours24    == normalized \div 60
      mins       == normalized % 60
      meridiem   == IF hours24 >= 12 THEN "PM" ELSE "AM"
      hours12    == IF hours24 % 12 = 0 THEN 12 ELSE hours24 % 12
  IN  [hours12 |-> hours12, mins |-> mins, meridiem |-> meridiem]

\* splitLabel keeps the time part and the meridiem of a label
splitLabel(label) ==
  [time |-> <<label.hours12, label.mins>>, meridiem |-> label.meridiem]

\* the window text as the sequence of its parts
formatWindow(startMin, endMin) ==
  LET start == splitLabel(minutesToLabel(startMin))
      end   == splitLabel(minutesToLabel(endMin))
  IN  IF start.meridiem = end.meridiem
      THEN <<start.time, end.time, end.meridiem>>
      ELSE <<start.time, start.meridiem, end.time, end.meridiem>>

-----------------------------------------------------------------------------
(* Explanation engine, src/src/logic/explainEngine.ts *)

reasonCatalog ==
  [ TBC_PEAK_AVOIDANCE |->
      [title |-> "Peak avoidance in Time-Based Control", confidence |-> "High"],
    SOLAR_SURPLUS_CHARGE |->
      [title |-> "Charging from solar surplus", confidence |-> "High"],
    BACKUP_RESERVE_PROTECTION |->
      [title |-> "Reserve protection near backup threshold",
       confidence |-> "Medium"],
    STORM_WATCH_PRECHARGE |->
      [title |-> "Storm Watch pre-charge behavior", confidence |-> "High"],
    EXPORTING_SURPLUS |->
      [title |-> "Exporting excess energy", confidence |-> "Medium"],
    HOLDING_CHARGE |->
      [title |-> "Holding battery level", confidence |-> "Low"] ]

\* the confidence argument of buildReason when it is left out
Undefined == "undefined"

overlapsWindow(startMin, endMin, window) ==
  LET overlapStart == Max(startMin, window.startMin)
      overlapEnd   == Min(endMin, window.endMin)
  IN  [overlaps |-> overlapStart < overlapEnd,
       start |-> overlapStart, end |-> overlapEnd]

\* sum of a sequence of integers; the range is halved to keep the
\* evaluation shallow on a whole day of samples
RECURSIVE SumRange(_, _, _)
SumRange(s, lo, hi) ==
  IF lo > hi THEN 0
  ELSE IF lo = hi THEN s[lo]
  ELSE LET mid == (lo + hi) \div 2
       IN  SumRange(s, lo, mid) + SumRange(s, mid + 1, hi)

SumSeq(s) == SumRange(s, 1, Len(s))

\* samples.reduce((sum, sample) => sum + picker(sample), 0) for the pickers
\* the engine uses; average is this sum over samples.length, and the model
\* compares and rounds averages through the sum and the length
sumBatteryKw(ws) == SumSeq([i \in 1 .. Len(ws) |-> ws[i].batteryKw])

sumSolarKw(ws) == SumSeq([i \in 1 .. Len(ws) |-> ws[i].solarKw])

sumHomeKw(ws) == SumSeq([i \in 1 .. Len(ws) |-> ws[i].homeKw])

\* round(average(...), 2), in centi-kW
roundAverage(sum, n) == IF n = 0 THEN 0 ELSE RoundDiv(sum, n)

buildReason(code, evidence, confidence) ==
  LET base == reasonCatalog[code]
  IN  [ code       |-> code,
        title      |-> base.title,
        confidence |-> IF confidence = Undefined THEN base.confidence
                       ELSE confidence,
        evidence   |-> SubSeq(evidence, 1, Min(3, Len(evidence))) ]

\* samples.find(predicate) for the predicate "index is in hits"
findFirstSample(ws, hits, fallbackMin) ==
  IF hits = {} THEN fallbackMin
  ELSE ws[CHOOSE i \in hits : \A j \in hits : i <= j].ts

\* The for loop of hasConsecutiveGridExport over ws[lo .. hi] from the loop
\* state st = [run, runStart, ret]; ret is the value returned from inside
\* the loop (Null while it has not returned).  The range is halved, and st
\* tested first, only to keep the evaluation shallow.  A number | null is a
\* sequence: <<>> for null, <<ts>> for a number.
Null == <<>>

RECURSIVE exportScan(_, _, _, _, _)
exportScan(st, ws, lo, hi, minRunLength) ==
  IF st.ret # Null \/ lo > hi THEN st
  ELSE IF lo = hi THEN
    IF ws[lo].gridKw < -60 THEN
      LET run      == st.run + 1
          runStart == IF st.runStart = Null THEN <<ws[lo].ts>> ELSE st.runStart
      IN  [run |-> run, runStart |-> runStart,
           ret |-> IF run >= minRunLength THEN runStart ELSE Null]
    ELSE [run |-> 0, runStart |-> Null, ret |-> Null]
  ELSE LET mid == (lo + hi) \div 2
       IN  exportScan(exportScan(st, ws, lo, mid, minRunLength),
                      ws, mid + 1, hi, minRunLength)

\* the scan without the else branch: a sample at or above -0.6 kW does not
\* reset the run
hasConsecutiveGridExportNoReset(ws, minRunLength) ==
  LET exporting == {i \in 1 .. Len(ws) : ws[i].gridKw < -60}
  IN  IF Cardinality(exporting) >= minRunLength
      THEN <<ws[CHOOSE i \in exporting : \A j \in exporting : i <= j].ts>>
      ELSE Null

hasConsecutiveGridExport(ws, minRunLength) ==
  exportScan([run |-> 0, runStart |-> Null, ret |-> Null],
             ws, 1, Len(ws), minRunLength).ret

RECURSIVE probeForward(_, _, _)
probeForward(ts, usedTs, upperBound) ==
  IF ts \in usedTs /\ ts <= upperBound
  THEN probeForward(ts + 5, usedTs, upperBound) ELSE ts

RECURSIVE probeBackward(_, _, _)
probeBackward(ts, usedTs, startMin) ==
  IF ts \in usedTs /\ ts >= startMin
  THEN probeBackward(ts - 5, usedTs, startMin) ELSE ts

ensureUniqueTimestamp(proposedTs, usedTs, startMin, endMin) ==
  LET upperBound == Max(startMin, endMin - 5)
      ts0 == clamp(proposedTs, startMin, upperBound)
      ts1 == probeForward(ts0, usedTs, upperBound)
      ts2 == probeBackward(ts1, usedTs, startMin)
  IN  clamp(ts2, startMin, upperBound)

\* the filter without the Math.min / Math.max ordering of the bounds
getWindowSamplesAsGiven(samplesAll, startMin, endMin) ==
  LET keep(sample) == sample.ts >= startMin /\ sample.ts < endMin
  IN  SelectSeq(samplesAll, keep)

getWindowSamples(samplesAll, startMin, endMin) ==
  LET safeStart == Min(startMin, endMin)
      safeEnd   == Max(startMin, endMin)
      keep(sample) == sample.ts >= safeStart /\ sample.ts < safeEnd
  IN  SelectSeq(samplesAll, keep)

SeqMin(s) == CHOOSE m \in {s[i] : i \in 1 .. Len(s)} :
               \A i \in 1 .. Len(s) : m <= s[i]

SeqMax(s) == CHOOSE m \in {s[i] : i \in 1 .. Len(s)} :
               \A i \in 1 .. Len(s) : m >= s[i]

\* the signed quantity itself, without Math.max(.., 0)
signedPart(x) == x

\* the energy sums before rounding, in centi-kW steps (centi-kWh * 12)
positivePart(x) == Max(x, 0)

\* round(total, 2) of a sum of centi-kW over steps of STEP_HOURS: centi-kWh
roundKwh(sumKw) == RoundDiv(sumKw, STEPS_PER_HOUR)

\* the summary with the SOC fields left at the configured reserve
emptySummaryAtReserve ==
  [ startSoc |-> storyDayContext.backupReservePct * 10,
    endSoc |-> storyDayContext.backupReservePct * 10,
    minSoc |-> storyDayContext.backupReservePct * 10,
    maxSoc |-> storyDayContext.backupReservePct * 10,
    totalGridImportKwhApprox |-> 0, totalGridExportKwhApprox |-> 0,
    totalBatteryChargeKwhApprox |-> 0, totalBatteryDischargeKwhApprox |-> 0 ]

\* what summarizeWindow returns for samples.length === 0
emptySummary ==
  [ startSoc |-> 0, endSoc |-> 0, minSoc |-> 0, maxSoc |-> 0,
    totalGridImportKwhApprox |-> 0, totalGridExportKwhApprox |-> 0,
    totalBatteryChargeKwhApprox |-> 0, totalBatteryDischargeKwhApprox |-> 0 ]

summarizeWindow(ws, ctx) ==
  IF Len(ws) = 0 THEN emptySummary
  ELSE
    LET n == Len(ws)
        gridImport == SumSeq([i \in 1 .. n |-> positivePart(ws[i].gridKw)])
        gridExport == SumSeq([i \in 1 .. n |-> positivePart(-ws[i].gridKw)])
        batteryCharge ==
          SumSeq([i \in 1 .. n |-> positivePart(ws[i].batteryKw)])
        batteryDischarge ==
          SumSeq([i \in 1 .. n |-> positivePart(-ws[i].batteryKw)])
        socs == [i \in 1 .. n |-> ws[i].socPct]
    \* round(x, 1) of a stored socPct, already a multiple of 0.1, is x
    IN  [ startSoc |-> ws[1].socPct,
          endSoc   |-> ws[n].socPct,
          minSoc   |-> SeqMin(socs),
          maxSoc   |-> SeqMax(socs),
          totalGridImportKwhApprox       |-> roundKwh(gridImport),
          totalGridExportKwhApprox       |-> roundKwh(gridExport),
          totalBatteryChargeKwhApprox    |-> roundKwh(batteryCharge),
          totalBatteryDischargeKwhApprox |-> roundKwh(batteryDischarge) ]

\* An evidence string is the sequence of its template name and the values
\* interpolated into it (powers in centi-kW, SOC in tenths, energies in
\* centi-kWh).
eventTimeEvidence(tsMin) == <<"Event time", minutesToLabel(tsMin)>>

\* rawEvents of buildExplainTimeline, in push order
\* the fallback pushed whatever the detectors found
pushAlways(detected, fallback) == detected \o fallback

\* if (rawEvents.length === 0) rawEvents.push(fallback)
pushIfNoneDetected(detected, fallback) ==
  IF Len(detected) = 0 THEN fallback ELSE detected

rawEventsOf(windowSamples, ctx, startMin, endMin) ==
  LET n            == Len(windowSamples)
      summary      == summarizeWindow(windowSamples, ctx)
      sumBattery   == sumBatteryKw(windowSamples)
      sumSolar     == sumSolarKw(windowSamples)
      sumHome      == sumHomeKw(windowSamples)
      avgBatteryKw == roundAverage(sumBattery, n)
      avgSolarKw   == roundAverage(sumSolar, n)
      avgHomeKw    == roundAverage(sumHome, n)
      peakOverlap  == overlapsWindow(startMin, endMin, ctx.peakWindow)
      stormOverlap == overlapsWindow(startMin, endMin, ctx.stormWatchWindow)
      peakText     == formatWindow(ctx.peakWindow.startMin,
                                   ctx.peakWindow.endMin)
      stormText    == formatWindow(ctx.stormWatchWindow.startMin,
                                   ctx.stormWatchWindow.endMin)
      peakEvent ==
        IF peakOverlap.overlaps THEN
          << [ proposedTsMin |-> peakOverlap.start,
               type |-> "rate",
               title |-> "Peak rate period",
               whatHappened |->
                 "Peak period started. System prioritized reducing grid usage.",
               reasons |-> <<
                 buildReason("TBC_PEAK_AVOIDANCE",
                   << <<"Mode", ctx.mode>>,
                      <<"Selected window overlaps peak period", peakText>>,
                      <<"Battery average power was", avgBatteryKw>> >>,
                   Undefined) >> ] >>
        ELSE <<>>
      stormEvent ==
        IF stormOverlap.overlaps /\ ctx.stormWatchEnabled THEN
          << [ proposedTsMin |-> stormOverlap.start,
               type |-> "storm",
               title |-> "Storm Watch",
               whatHappened |->
                 "Storm Watch engaged. Powerwall increased charge to improve backup readiness.",
               reasons |-> <<
                 buildReason("STORM_WATCH_PRECHARGE",
                   << <<"Storm Watch is enabled in site settings">>,
                      <<"Window overlaps Storm Watch", stormText>>,
                      <<"SOC moved", summary.startSoc, summary.endSoc>> >>,
                   Undefined) >> ] >>
        ELSE <<>>
      \* avgBatteryKw > 0.4
      chargeEvent ==
        IF sumBattery > 40 * n THEN
          LET chargeStartTs ==
                findFirstSample(windowSamples,
                  {i \in 1 .. n : windowSamples[i].batteryKw > 40}, startMin)
              stormReason ==
                IF stormOverlap.overlaps /\ ctx.stormWatchEnabled THEN
                  << buildReason("STORM_WATCH_PRECHARGE",
                       << <<"Charging occurred while Storm Watch interval was active">>,
                          <<"Average battery power was +", avgBatteryKw>> >>,
                       Undefined) >>
                ELSE <<>>
              \* avgSolarKw > avgHomeKw + 0.3
              solarReason ==
                IF sumSolar > sumHome + 30 * n THEN
                  << buildReason("SOLAR_SURPLUS_CHARGE",
                       << <<"Average solar exceeded home load",
                            avgSolarKw, avgHomeKw>>,
                          <<"Battery charged about",
                            summary.totalBatteryChargeKwhApprox>> >>,
                       IF stormOverlap.overlaps THEN "Medium" ELSE "High") >>
                ELSE <<>>
              reasons0 == stormReason \o solarReason
              reasons ==
                IF Len(reasons0) = 0 THEN
                  << buildReason("HOLDING_CHARGE",
                       << <<"Battery stayed net charging at +", avgBatteryKw>>,
                          <<"SOC increased", summary.startSoc,
                            summary.endSoc>> >>,
                       Undefined) >>
                ELSE reasons0
          IN  << [ proposedTsMin |-> chargeStartTs,
                   type |-> "battery",
                   title |-> "Battery charging",
                   whatHappened |->
                     "Powerwall was mostly charging during the selected period.",
                   reasons |-> reasons ] >>
        ELSE <<>>
      \* avgBatteryKw < -0.4
      dischargeEvent ==
        IF sumBattery < -40 * n THEN
          LET dischargeStartTs ==
                findFirstSample(windowSamples,
                  {i \in 1 .. n : windowSamples[i].batteryKw < -40}, startMin)
              peakReason ==
                IF peakOverlap.overlaps THEN
                  << buildReason("TBC_PEAK_AVOIDANCE",
                       << <<"Selection overlaps peak period", peakText>>,
                          <<"Battery average power was (discharging)",
                            avgBatteryKw>> >>,
                       Undefined) >>
                ELSE <<>>
              reserveReason ==
                IF summary.minSoc <= (ctx.backupReservePct + 2) * 10 THEN
                  << buildReason("BACKUP_RESERVE_PROTECTION",
                       << <<"Backup reserve is", ctx.backupReservePct>>,
                          <<"SOC approached reserve. Minimum observed",
                            summary.minSoc>> >>,
                       "Medium") >>
                ELSE <<>>
              reasons0 == peakReason \o reserveReason
              reasons ==
                IF Len(reasons0) = 0 THEN
                  << buildReason("HOLDING_CHARGE",
                       << <<"Battery delivered about",
                            summary.totalBatteryDischargeKwhApprox>>,
                          <<"SOC declined", summary.startSoc,
                            summary.endSoc>> >>,
                       Undefined) >>
                ELSE reasons0
          IN  << [ proposedTsMin |-> dischargeStartTs,
                   type |-> "battery",
                   title |-> "Battery discharging",
                   whatHappened |->
                     "Powerwall supplied home demand to reduce grid dependence.",
                   reasons |-> reasons ] >>
        ELSE <<>>
      exportRunStart == hasConsecutiveGridExport(windowSamples, 3)
      exportEvent ==
        IF exportRunStart # Null THEN
          << [ proposedTsMin |-> exportRunStart[1],
               type |-> "grid",
               title |-> "Exporting to grid",
               whatHappened |->
                 "Solar production exceeded site demand and excess energy was exported.",
               reasons |-> <<
                 buildReason("EXPORTING_SURPLUS",
                   << <<"At least 15 minutes of consecutive grid export was observed">>,
                      <<"Average solar vs home", avgSolarKw, avgHomeKw>>,
                      <<"Approx export in selection",
                        summary.totalGridExportKwhApprox>> >>,
                   IF summary.totalGridExportKwhApprox > 50 THEN "High"
                   ELSE "Medium") >> ] >>
        ELSE <<>>
      \* Math.abs(avgBatteryKw) < 0.25 && avgSolarKw > avgHomeKw + 0.25
      holdEvent ==
        IF Abs(sumBattery) < 25 * n /\ sumSolar > sumHome + 25 * n THEN
          << [ proposedTsMin |->
                 findFirstSample(windowSamples, 1 .. n, startMin),
               type |-> "solar",
               title |-> "Holding battery level",
               whatHappened |->
                 "Battery power stayed near neutral while solar carried most of the load.",
               reasons |-> <<
                 buildReason("HOLDING_CHARGE",
                   << <<"Average battery power stayed near", avgBatteryKw>>,
                      <<"SOC remained within", summary.minSoc, summary.maxSoc>>,
                      <<"Solar remained above home load on average",
                        avgSolarKw, avgHomeKw>> >>,
                   "Medium") >> ] >>
        ELSE <<>>
      detected == peakEvent \o stormEvent \o chargeEvent \o dischargeEvent
                  \o exportEvent \o holdEvent
      stableEvent ==
        << [ proposedTsMin |-> startMin,
             type |-> "info",
             title |-> "Stable operation",
             whatHappened |->
               "No major state transitions were detected in this window.",
             reasons |-> <<
               buildReason("HOLDING_CHARGE",
                 << <<"Window", formatWindow(startMin, endMin)>>,
                    <<"SOC changed", summary.startSoc, summary.endSoc>>,
                    <<"Average battery power", avgBatteryKw>> >>,
                 Undefined) >> ] >>
  IN  pushIfNoneDetected(detected, stableEvent)

\* rawEvents.map(...): events k .. Len(rawEvents) given the timestamps used
\* by the events before k
RECURSIVE normalizeFrom(_, _, _, _, _)
normalizeFrom(rawEvents, k, usedTimestamps, startMin, endMin) ==
  IF k > Len(rawEvents) THEN <<>>
  ELSE LET event == rawEvents[k]
           tsMin == ensureUniqueTimestamp(event.proposedTsMin, usedTimestamps,
                                          startMin, endMin)
       IN  << [ id |-> <<tsMin, k - 1>>,
                tsMin |-> tsMin,
                title |-> event.title,
                type |-> event.type,
                whatHappened |-> event.whatHappened,
                reasons |-> event.reasons ] >>
           \o normalizeFrom(rawEvents, k + 1, usedTimestamps \cup {tsMin},
                            startMin, endMin)

\* mutant of sortByTs: the sort is left out
sortByTsLeftOut(events) == events

\* Array.prototype.sort((a, b) => a.tsMin - b.tsMin): a stable sort
RECURSIVE insertByTs(_, _)
insertByTs(sorted, event) ==
  IF Len(sorted) = 0 THEN <<event>>
  ELSE IF sorted[Len(sorted)].tsMin <= event.tsMin THEN Append(sorted, event)
  ELSE Append(insertByTs(SubSeq(sorted, 1, Len(sorted) - 1), event),
              sorted[Len(sorted)])

RECURSIVE sortByTs(_)
sortByTs(events) ==
  IF Len(events) = 0 THEN <<>>
  ELSE insertByTs(sortByTs(SubSeq(events, 1, Len(events) - 1)),
                  events[Len(events)])

\* .slice(0, count)
sliceFirst(s, count) == SubSeq(s, 1, Min(count, Len(s)))

\* the final map of buildExplainTimeline for the event at position index
finalizeEvent(event, idx) ==
  [ id |-> <<event.type, event.tsMin, idx>>,
    tsMin |-> event.tsMin,
    title |-> event.title,
    type |-> event.type,
    whatHappened |-> event.whatHappened,
    reasons |->
      [r \in 1 .. Len(event.reasons) |->
         [ code |-> event.reasons[r].code,
           title |-> event.reasons[r].title,
           confidence |-> event.reasons[r].confidence,
           evidence |->
             sliceFirst(Append(event.reasons[r].evidence,
                               eventTimeEvidence(event.tsMin)), 3) ]] ]

buildExplainTimeline(samplesAll, ctx, startMin, endMin) ==
  LET windowSamples == getWindowSamples(samplesAll, startMin, endMin)
  IN  IF Len(windowSamples) = 0 THEN <<>>
      ELSE
        LET rawEvents == rawEventsOf(windowSamples, ctx, startMin, endMin)
            normalizedEvents ==
              sliceFirst(sortByTs(normalizeFrom(rawEvents, 1, {},
                                                startMin, endMin)),
                         MAX_EVENTS)
        IN  [i \in 1 .. Len(normalizedEvents) |->
               finalizeEvent(normalizedEvents[i], i - 1)]

-----------------------------------------------------------------------------
(* Replay simulator, src/src/logic/explainEngine.ts (second half) *)

\* MAX_CHARGE_KW = 5 and MAX_DISCHARGE_KW = 5, in fine units
MAX_CHARGE_KW == 5 * 100 * FINE

MAX_DISCHARGE_KW == 5 * 100 * FINE

STORM_TARGET_SOC_PCT == 85

\* An optional override is a sequence: <<>> when omitted, <<v>> when given.
\* orElse(opt, dflt) is opt ?? dflt.
\* the override ignored: always the ambient value
ambientAlways(opt, dflt) == dflt

\* opt ?? dflt
orElse(opt, dflt) == IF opt = <<>> THEN dflt ELSE opt[1]

Min3(a, b, c) == Min(a, Min(b, c))

\* socUnits and reserveUnits in SOC units; the bounds in fine units.
\* maxChargeKwh / STEP_HOURS = (100 - socPct) / 100 * 13.5 * 12 kW is exactly
\* the SOC headroom counted in SOC units.
computeEnergyBounds(socUnits, reserveUnits) ==
  [ maxChargeKw    |-> Max(0, 100 * SOC_UNITS_PER_PCT - socUnits),
    maxDischargeKw |-> Max(0, socUnits - reserveUnits) ]

\* batteryKw in fine units, solarKw and homeKw the sample's centi-kW
\* the step with the SOC integrated but not clamped
applyEnergyStepUnclamped(batteryKw, solarKw, homeKw, socUnits, reserveUnits) ==
  LET boundedBatteryKw == clamp(batteryKw, -MAX_DISCHARGE_KW, MAX_CHARGE_KW)
  IN  [nextSocPct |-> socUnits + boundedBatteryKw,
       gridKw |-> (homeKw - solarKw) * FINE + boundedBatteryKw,
       batteryKw |-> boundedBatteryKw]

applyEnergyStep(batteryKw, solarKw, homeKw, socUnits, reserveUnits) ==
  LET boundedBatteryKw == clamp(batteryKw, -MAX_DISCHARGE_KW, MAX_CHARGE_KW)
      deltaSocPct      == boundedBatteryKw
      nextSocPct       == clamp(socUnits + deltaSocPct, reserveUnits,
                                100 * SOC_UNITS_PER_PCT)
      gridKw           == (homeKw - solarKw) * FINE + boundedBatteryKw
  IN  [nextSocPct |-> nextSocPct, gridKw |-> gridKw,
       batteryKw |-> boundedBatteryKw]

accumulateTotals(totals, batteryKw, gridKw) ==
  [ gridImport       |-> totals.gridImport + Max(gridKw, 0),
    gridExport       |-> totals.gridExport + Max(-gridKw, 0),
    batteryCharge    |-> totals.batteryCharge + Max(batteryKw, 0),
    batteryDischarge |-> totals.batteryDischarge + Max(-batteryKw, 0) ]

\* the Self-Powered step without the SOC headroom in its minima
simulateSelfPoweredStepHeadroomFree(sample, socUnits, reserveUnits) ==
  LET netSolarKw == (sample.solarKw - sample.homeKw) * FINE
      batteryKw  ==
        IF netSolarKw > 0 /\ socUnits < 100 * SOC_UNITS_PER_PCT THEN
          Min(netSolarKw, MAX_CHARGE_KW)
        ELSE IF netSolarKw < 0 /\ socUnits > reserveUnits THEN
          -Min(Abs(netSolarKw), MAX_DISCHARGE_KW)
        ELSE 0
  IN  applyEnergyStep(batteryKw, sample.solarKw, sample.homeKw,
                      socUnits, reserveUnits)

simulateSelfPoweredStep(sample, socUnits, reserveUnits) ==
  LET netSolarKw == (sample.solarKw - sample.homeKw) * FINE
      bounds     == computeEnergyBounds(socUnits, reserveUnits)
      batteryKw  ==
        IF netSolarKw > 0 /\ socUnits < 100 * SOC_UNITS_PER_PCT THEN
          Min3(netSolarKw, MAX_CHARGE_KW, bounds.maxChargeKw)
        ELSE IF netSolarKw < 0 /\ socUnits > reserveUnits THEN
          -Min3(Abs(netSolarKw), MAX_DISCHARGE_KW, bounds.maxDischargeKw)
        ELSE 0
  IN  applyEnergyStep(batteryKw, sample.solarKw, sample.homeKw,
                      socUnits, reserveUnits)

\* the Time-Based step with the storm-watch branch tested before the peak
\* branch
simulateTimeBasedStepStormFirst(sample, ctx, socUnits, reserveUnits, peakStartMin) ==
  LET inPeak  == sample.ts >= peakStartMin /\ sample.ts < ctx.peakWindow.endMin
      inStorm == ctx.stormWatchEnabled
                 /\ sample.ts >= ctx.stormWatchWindow.startMin
                 /\ sample.ts < ctx.stormWatchWindow.endMin
      bounds    == computeEnergyBounds(socUnits, reserveUnits)
      deficitKw == Max(0, sample.homeKw - sample.solarKw) * FINE
      desiredChargeKw == Max(0, deficitKw + 220 * FINE)
  IN  IF inStorm
         /\ socUnits < Max(reserveUnits,
                           STORM_TARGET_SOC_PCT * SOC_UNITS_PER_PCT) THEN
        applyEnergyStep(
          Min3(desiredChargeKw, MAX_CHARGE_KW, bounds.maxChargeKw),
          sample.solarKw, sample.homeKw, socUnits, reserveUnits)
      ELSE IF inPeak /\ socUnits > reserveUnits THEN
        applyEnergyStep(
          -Min3(deficitKw + 35 * FINE, MAX_DISCHARGE_KW, bounds.maxDischargeKw),
          sample.solarKw, sample.homeKw, socUnits, reserveUnits)
      ELSE simulateSelfPoweredStep(sample, socUnits, reserveUnits)

simulateTimeBasedStep(sample, ctx, socUnits, reserveUnits, peakStartMin) ==
  LET inPeak  == sample.ts >= peakStartMin /\ sample.ts < ctx.peakWindow.endMin
      inStorm == ctx.stormWatchEnabled
                 /\ sample.ts >= ctx.stormWatchWindow.startMin
                 /\ sample.ts < ctx.stormWatchWindow.endMin
      bounds    == computeEnergyBounds(socUnits, reserveUnits)
      deficitKw == Max(0, sample.homeKw - sample.solarKw) * FINE
      desiredChargeKw == Max(0, deficitKw + 220 * FINE)
  IN  IF inPeak /\ socUnits > reserveUnits THEN
        applyEnergyStep(
          -Min3(deficitKw + 35 * FINE, MAX_DISCHARGE_KW, bounds.maxDischargeKw),
          sample.solarKw, sample.homeKw, socUnits, reserveUnits)
      ELSE IF inStorm
              /\ socUnits < Max(reserveUnits,
                                STORM_TARGET_SOC_PCT * SOC_UNITS_PER_PCT) THEN
        applyEnergyStep(
          Min3(desiredChargeKw, MAX_CHARGE_KW, bounds.maxChargeKw),
          sample.solarKw, sample.homeKw, socUnits, reserveUnits)
      ELSE simulateSelfPoweredStep(sample, socUnits, reserveUnits)

\* round(total, 2) of a running total (fine units summed over steps of
\* STEP_HOURS), in centi-kWh
roundTotalKwh(total) == RoundDiv(total, FINE * STEPS_PER_HOUR)

finalizeSummary(startSoc, endSoc, totals) ==
  [ startSoc |-> roundSoc(startSoc),
    endSoc   |-> roundSoc(endSoc),
    totalGridImportKwhApprox       |-> roundTotalKwh(totals.gridImport),
    totalGridExportKwhApprox       |-> roundTotalKwh(totals.gridExport),
    totalBatteryChargeKwhApprox    |-> roundTotalKwh(totals.batteryCharge),
    totalBatteryDischargeKwhApprox |-> roundTotalKwh(totals.batteryDischarge) ]

\* const step of the loop body of replayWindow
simulateStep(sample, ctx, modeUsed, socUnits, reserveUnits, peakStartMin) ==
  IF modeUsed = "Self-Powered"
  THEN simulateSelfPoweredStep(sample, socUnits, reserveUnits)
  ELSE simulateTimeBasedStep(sample, ctx, socUnits, reserveUnits, peakStartMin)

replayStep(st, sample, ctx, modeUsed, reserveUnits, peakStartMin) ==
  LET step == simulateStep(sample, ctx, modeUsed, st.socPct, reserveUnits,
                           peakStartMin)
  IN  [ socPct |-> step.nextSocPct,
        totals |-> accumulateTotals(st.totals, step.batteryKw, step.gridKw) ]

\* The for loop of replayWindow over ws[lo .. hi] from the loop state
\* st = [socPct, totals].  The range is halved, and st tested first, only to
\* keep the evaluation shallow.
RECURSIVE replayLoop(_, _, _, _, _, _, _, _)
replayLoop(st, ws, lo, hi, ctx, modeUsed, reserveUnits, peakStartMin) ==
  IF st.socPct < 0 \/ lo > hi THEN st
  ELSE IF lo = hi THEN
    replayStep(st, ws[lo], ctx, modeUsed, reserveUnits, peakStartMin)
  ELSE LET mid == (lo + hi) \div 2
       IN  replayLoop(
             replayLoop(st, ws, lo, mid, ctx, modeUsed, reserveUnits,
                        peakStartMin),
             ws, mid + 1, hi, ctx, modeUsed, reserveUnits, peakStartMin)

\* the empty summary with the SOC fields at the day's starting SOC
emptyReplaySummaryAtDayStart ==
  [ startSoc |-> SOC_START_PCT * 10, endSoc |-> SOC_START_PCT * 10,
    totalGridImportKwhApprox |-> 0, totalGridExportKwhApprox |-> 0,
    totalBatteryChargeKwhApprox |-> 0, totalBatteryDischargeKwhApprox |-> 0 ]

\* const empty of replayWindow
emptyReplaySummary ==
  [ startSoc |-> 0, endSoc |-> 0,
    totalGridImportKwhApprox |-> 0, totalGridExportKwhApprox |-> 0,
    totalBatteryChargeKwhApprox |-> 0, totalBatteryDischargeKwhApprox |-> 0 ]

\* the deltas taken the other way round, actual minus replayed
replayDeltasReversed(replaySummary, actualSummary) ==
  [ endSocPct |-> actualSummary.endSoc - replaySummary.endSoc,
    gridImportKwh |->
      actualSummary.totalGridImportKwhApprox
      - replaySummary.totalGridImportKwhApprox,
    batteryDischargeKwh |->
      actualSummary.totalBatteryDischargeKwhApprox
      - replaySummary.totalBatteryDischargeKwhApprox ]

\* The deltas of replayWindow.  round(.., 1) and round(.., 2) of a
\* difference of two values already rounded to that digit leave it as it is.
replayDeltas(replaySummary, actualSummary) ==
  [ endSocPct |-> replaySummary.endSoc - actualSummary.endSoc,
    gridImportKwh |->
      replaySummary.totalGridImportKwhApprox
      - actualSummary.totalGridImportKwhApprox,
    batteryDischargeKwh |->
      replaySummary.totalBatteryDischargeKwhApprox
      - actualSummary.totalBatteryDischargeKwhApprox ]

\* the value replayWindow returns after the loop
replayReturn(actualSummary, replaySummary, modeUsed, reserveUsed) ==
  [ actual |->
      [ startSoc |-> actualSummary.startSoc,
        endSoc   |-> actualSummary.endSoc,
        totalGridImportKwhApprox |->
          actualSummary.totalGridImportKwhApprox,
        totalGridExportKwhApprox |->
          actualSummary.totalGridExportKwhApprox,
        totalBatteryChargeKwhApprox |->
          actualSummary.totalBatteryChargeKwhApprox,
        totalBatteryDischargeKwhApprox |->
          actualSummary.totalBatteryDischargeKwhApprox ],
    replay |-> replaySummary,
    deltas |-> replayDeltas(replaySummary, actualSummary),
    modeUsed |-> modeUsed,
    reserveUsed |-> reserveUsed ]

\* let totals of replayWindow before the loop
zeroTotals ==
  [gridImport |-> 0, gridExport |-> 0, batteryCharge |-> 0,
   batteryDischarge |-> 0]

replayWindow(samplesAll, ctx, startMin, endMin, overrides) ==
  LET windowSamples == getWindowSamples(samplesAll, startMin, endMin)
      actualSummary == summarizeWindow(windowSamples, ctx)
      modeUsed      == orElse(overrides.mode, ctx.mode)
      reserveUsed   == orElse(overrides.backupReservePct, ctx.backupReservePct)
      peakStartMin  == orElse(overrides.peakStartMin, ctx.peakWindow.startMin)
  IN  IF Len(windowSamples) = 0 THEN
        [ actual |-> emptyReplaySummary,
          replay |-> emptyReplaySummary,
          deltas |-> [endSocPct |-> 0, gridImportKwh |-> 0,
                      batteryDischargeKwh |-> 0],
          modeUsed |-> modeUsed,
          reserveUsed |-> reserveUsed ]
      ELSE
        LET replayStartSoc == windowSamples[1].socPct * SOC_UNITS_PER_TENTH
            final == replayLoop(
                       [socPct |-> replayStartSoc, totals |-> zeroTotals],
                       windowSamples, 1, Len(windowSamples), ctx, modeUsed,
                       reserveUsed * SOC_UNITS_PER_PCT, peakStartMin)
            replaySummary ==
              finalizeSummary(replayStartSoc, final.socPct, final.totals)
        IN  replayReturn(actualSummary, replaySummary, modeUsed, reserveUsed)

\* getSamplesInWindow of storyDay.ts: it filters the module's own
\* storyDaySamples, here the array day
getSamplesInWindow(day, startMin, endMin) ==
  LET roundedStart == clamp(clampToStep(startMin, SAMPLE_STEP_MINUTES),
                            0, MINUTES_PER_DAY)
      roundedEnd   == clamp(clampToStep(endMin, SAMPLE_STEP_MINUTES),
                            0, MINUTES_PER_DAY)
      safeStart    == Min(roundedStart, roundedEnd)
      safeEnd      == Max(roundedStart, roundedEnd)
      keep(sample) == sample.ts >= safeStart /\ sample.ts < safeEnd
  IN  SelectSeq(day, keep)

-----------------------------------------------------------------------------
(* The program: the day is built once when the module loads, then the       *)
(* screens call the core operations on it with the window they selected.    *)

\* The window bounds a caller passes: the hours and the edges of the day, of
\* the peak and storm windows and of the solar ramp, and a few values off the
\* 5-minute grid or outside the day.
WindowMinutes ==
  {-10, 0, 2, 7, 540, 690, 990, 1020, 1140, 1230, 1235, 1440}

\* the reserve percents of the what-if slider (RESERVE_MIN .. RESERVE_MAX by
\* RESERVE_STEP, ExplainScreen.tsx:37-39) that the model tries
ReservePcts == {30, 80}

ReplayModes == {"Time-Based Control", "Self-Powered"}

PeakStarts == {16 * 60, 17 * 60}

Overrides ==
  [ mode : {<<>>} \cup {<<m>> : m \in ReplayModes},
    backupReservePct : {<<>>} \cup {<<r>> : r \in ReservePcts},
    peakStartMin : {<<>>} \cup {<<p>> : p \in PeakStarts} ]

NoCall == [op |-> "none"]

\* pushed before the loop has pushed anything
NoSample ==
  [ts |-> -1, solarKw |-> 0, homeKw |-> 0, batteryKw |-> 0, gridKw |-> 0,
   socPct |-> 0]

\* the state when the module storyDay.ts has loaded
Init ==
  /\ profile = "story day"
  /\ index = SAMPLE_COUNT
  /\ socPct = storyDayLoopEnd.socPct
  /\ pushed = storyDaySamples[SAMPLE_COUNT]
  /\ samples = storyDaySamples
  /\ context = storyDayContext
  /\ call = NoCall
  /\ result = NoCall

GetWindowSamples(startMin, endMin) ==
  /\ call = NoCall
  /\ call' = [op |-> "getWindowSamples", startMin |-> startMin,
              endMin |-> endMin]
  /\ result' = [op |-> "getWindowSamples",
                samples |-> getWindowSamples(samples, startMin, endMin)]
  /\ UNCHANGED <<genVars, samples, context>>

GetSamplesInWindow(startMin, endMin) ==
  /\ call = NoCall
  /\ call' = [op |-> "getSamplesInWindow", startMin |-> startMin,
              endMin |-> endMin]
  /\ result' = [op |-> "getSamplesInWindow",
                samples |-> getSamplesInWindow(samples, startMin, endMin)]
  /\ UNCHANGED <<genVars, samples, context>>

\* ExplainScreen: summarizeWindow(getWindowSamples(storyDaySamples, ...))
SummarizeWindow(startMin, endMin) ==
  /\ call = NoCall
  /\ call' = [op |-> "summarizeWindow", startMin |-> startMin,
              endMin |-> endMin]
  /\ result' = [op |-> "summarizeWindow",
                summary |-> summarizeWindow(
                              getWindowSamples(samples, startMin, endMin),
                              context)]
  /\ UNCHANGED <<genVars, samples, context>>

BuildExplainTimeline(startMin, endMin) ==
  /\ call = NoCall
  /\ call' = [op |-> "buildExplainTimeline", startMin |-> startMin,
              endMin |-> endMin]
  /\ result' = [op |-> "buildExplainTimeline",
                events |-> buildExplainTimeline(samples, context,
                                                startMin, endMin)]
  /\ UNCHANGED <<genVars, samples, context>>

\* replayWindow applying the overrides by writing them into the shared
\* context record
ReplayWindowWritingContext(startMin, endMin, overrides) ==
  /\ call = NoCall
  /\ call' = [op |-> "replayWindow", startMin |-> startMin,
              endMin |-> endMin, overrides |-> overrides]
  /\ result' = [op |-> "replayWindow",
                replay |-> replayWindow(samples, context, startMin, endMin,
                                        overrides)]
  /\ context' = [context EXCEPT
                   !.mode = orElse(overrides.mode, context.mode),
                   !.backupReservePct =
                     orElse(overrides.backupReservePct,
                            context.backupReservePct)]
  /\ UNCHANGED <<genVars, samples>>

ReplayWindow(startMin, endMin, overrides) ==
  /\ call = NoCall
  /\ call' = [op |-> "replayWindow", startMin |-> startMin,
              endMin |-> endMin, overrides |-> overrides]
  /\ result' = [op |-> "replayWindow",
                replay |-> replayWindow(samples, context, startMin, endMin,
                                        overrides)]
  /\ UNCHANGED <<genVars, samples, context>>

\* The minutes a caller asks a label for: every minute of the day, of the
\* day before and of the day after, and some beyond.
LabelMinutes == (-1500) .. 1500

MinutesToLabel(minute) ==
  /\ call = NoCall
  /\ call' = [op |-> "minutesToLabel", minute |-> minute]
  /\ result' = [op |-> "minutesToLabel", label |-> minutesToLabel(minute)]
  /\ UNCHANGED <<genVars, samples, context>>

\* the caller has taken the returned value
Return ==
  /\ call # NoCall
  /\ call' = NoCall
  /\ result' = NoCall
  /\ UNCHANGED <<genVars, samples, context>>

Next ==
  \/ Return
  \/ \E minute \in LabelMinutes : MinutesToLabel(minute)
  \/ \E startMin \in WindowMinutes, endMin \in WindowMinutes :
       \/ GetWindowSamples(startMin, endMin)
       \/ GetSamplesInWindow(startMin, endMin)
       \/ SummarizeWindow(startMin, endMin)
       \/ BuildExplainTimeline(startMin, endMin)
       \/ \E overrides \in Overrides :
            ReplayWindow(startMin, endMin, overrides)

Spec == Init /\ [][Next]_vars

-----------------------------------------------------------------------------
(* The explanation engine called with any context: buildExplainTimeline is  *)
(* exported and takes the context as an argument.                           *)

\* Storm-watch windows of a context: the story day's evening one and one
\* over the solar charging hours.
StormWatchWindows ==
  { storyDayContext.stormWatchWindow,
    [startMin |-> 10 * 60, endMin |-> 12 * 60] }

\* the peak windows of the contexts: the story day's evening peak and a
\* morning peak
PeakWindows ==
  { storyDayContext.peakWindow,
    [startMin |-> 0, endMin |-> 6 * 60] }

\* the backup reserves of the contexts: the story day's and one the evening
\* discharge comes within 2 points of
BackupReservePcts ==
  { storyDayContext.backupReservePct, 70 }

\* the contexts handed to the engine
CoreContexts ==
  { [storyDayContext EXCEPT !.stormWatchEnabled = enabled,
                            !.stormWatchWindow = window,
                            !.peakWindow = peak,
                            !.backupReservePct = reserve] :
      enabled \in BOOLEAN, window \in StormWatchWindows,
      peak \in PeakWindows, reserve \in BackupReservePcts }

\* window bounds: the edges of the day, of the charging hours, of the peak
\* and of the two storm-watch windows
CoreWindowMinutes ==
  {0, 540, 690, 990, 1020, 1140, 1230, 1235, 1275}

CoreInit ==
  /\ profile = "story day"
  /\ index = SAMPLE_COUNT
  /\ socPct = storyDayLoopEnd.socPct
  /\ pushed = storyDaySamples[SAMPLE_COUNT]
  /\ samples = storyDaySamples
  /\ context \in CoreContexts
  /\ call = NoCall
  /\ result = NoCall

CoreNext ==
  \/ Return
  \/ \E startMin \in CoreWindowMinutes, endMin \in CoreWindowMinutes :
       BuildExplainTimeline(startMin, endMin)

SpecCore == CoreInit /\ [][CoreNext]_vars

-----------------------------------------------------------------------------
(* The engine on short sample arrays of any grid powers around the export
   threshold *)

\* gridKw of a sample: exporting above the threshold, at the threshold,
\* importing
ExportGridLevels == {-120, -60, 20}

\* the timestamps of the samples handed in, SAMPLE_STEP_MINUTES apart
ExportSampleTs ==
  [i \in 1 .. 6 |-> 10 * 60 + (i - 1) * SAMPLE_STEP_MINUTES]

\* a StorySample with the given grid power: idle battery, solar the residual
exportSample(ts, gridKw) ==
  [ts |-> ts, solarKw |-> 100 - gridKw, homeKw |-> 100, batteryKw |-> 0,
   gridKw |-> gridKw, socPct |-> SOC_START_PCT * 10]

\* the samples arguments handed to the engine
ExportSamples ==
  { [i \in 1 .. Len(ExportSampleTs) |-> exportSample(ExportSampleTs[i], grid[i])] :
      grid \in [1 .. Len(ExportSampleTs) -> ExportGridLevels] }

\* window bounds: around all the samples, and cutting the first two off
ExportWindowMinutes ==
  { ExportSampleTs[1], ExportSampleTs[3],
    ExportSampleTs[Len(ExportSampleTs)] + SAMPLE_STEP_MINUTES }

ExportInit ==
  /\ profile = "story day"
  /\ index = SAMPLE_COUNT
  /\ socPct = storyDayLoopEnd.socPct
  /\ pushed = storyDaySamples[SAMPLE_COUNT]
  /\ samples \in ExportSamples
  /\ context = storyDayContext
  /\ call = NoCall
  /\ result = NoCall

ExportNext ==
  \/ Return
  \/ \E startMin \in ExportWindowMinutes, endMin \in ExportWindowMinutes :
       BuildExplainTimeline(startMin, endMin)

SpecExport == ExportInit /\ [][ExportNext]_vars

-----------------------------------------------------------------------------
(* replayWindow taken one loop iteration at a time, on short sample arrays *)
(* of any powers and starting SOC.  index is the number of samples the     *)
(* loop has consumed, socPct the function's let socPct (in SOC units),     *)
(* pushed the loop's current sample.                                        *)

\* sample times: before the story-day peak (inside it once peakStartMin is
\* overridden to 16:00), inside both the peak and the storm-watch window,
\* and inside the storm-watch window after the peak
ReplaySampleTs == {16 * 60, 20 * 60 + 35, 21 * 60 + 5}

\* <<solarKw, homeKw>> of a sample: surplus above and below MAX_CHARGE_KW,
\* balance, deficit below and above MAX_DISCHARGE_KW
ReplayPowers ==
  {<<700, 100>>, <<300, 100>>, <<100, 100>>, <<100, 300>>, <<0, 600>>}

\* socPct of the window's first sample, in tenths: below and at the story
\* reserve, just above it, between the two reserves tried, above the storm
\* target, just below full, full
ReplayStartSocs == {250, 300, 305, 700, 900, 998, 1000}

replaySample(ts, power, socTenths) ==
  [ts |-> ts, solarKw |-> power[1], homeKw |-> power[2], batteryKw |-> 0,
   gridKw |-> power[2] - power[1], socPct |-> socTenths]

ReplayFirstSamples ==
  { replaySample(ts, power, soc) :
      ts \in ReplaySampleTs, power \in ReplayPowers, soc \in ReplayStartSocs }

ReplayLaterSamples ==
  { replaySample(ts, power, SOC_START_PCT * 10) :
      ts \in ReplaySampleTs, power \in ReplayPowers }

\* the samples arguments handed to replayWindow
ReplaySamples ==
  {<<>>} \cup {<<first>> : first \in ReplayFirstSamples}
         \cup {<<first, later>> : first \in ReplayFirstSamples,
                                  later \in ReplayLaterSamples}

ReplayContexts ==
  { [storyDayContext EXCEPT !.stormWatchEnabled = enabled] :
      enabled \in BOOLEAN }

\* the overrides handed to replayWindow: either mode, the reserve and the
\* peak start left ambient or moved
ReplayLoopOverrides ==
  [ mode : {<<m>> : m \in ReplayModes},
    backupReservePct : {<<>>, <<80>>},
    peakStartMin : {<<>>, <<16 * 60>>} ]

\* reserveUsed and peakStartMin and modeUsed of the call in progress
calledModeUsed == orElse(call.overrides.mode, context.mode)

calledReserveUsed ==
  orElse(call.overrides.backupReservePct, context.backupReservePct)

calledPeakStartMin ==
  orElse(call.overrides.peakStartMin, context.peakWindow.startMin)

ReplayInit ==
  /\ profile = "story day"
  /\ index = 0
  /\ socPct = 0
  /\ pushed = NoSample
  /\ samples \in ReplaySamples
  /\ context \in ReplayContexts
  /\ call = NoCall
  /\ result = NoCall

\* replayWindow up to the loop: the early return on an empty window, or the
\* loop state before the first iteration
ReplayEnter(startMin, endMin, overrides) ==
  /\ call = NoCall
  /\ call' = [op |-> "replayWindow", startMin |-> startMin,
              endMin |-> endMin, overrides |-> overrides]
  /\ LET windowSamples == getWindowSamples(samples, startMin, endMin)
     IN  IF Len(windowSamples) = 0 THEN
           /\ result' = [op |-> "replayWindow",
                         replay |-> replayWindow(samples, context, startMin,
                                                 endMin, overrides)]
           /\ socPct' = socPct
         ELSE
           LET replayStartSoc == windowSamples[1].socPct * SOC_UNITS_PER_TENTH
           IN  /\ socPct' = replayStartSoc
               /\ result' = [op |-> "replayLoop",
                             replayStartSoc |-> replayStartSoc,
                             socBefore |-> replayStartSoc,
                             step |-> [nextSocPct |-> replayStartSoc,
                                       gridKw |-> 0, batteryKw |-> 0],
                             totals |-> zeroTotals]
  /\ index' = 0
  /\ pushed' = NoSample
  /\ UNCHANGED <<profile, samples, context>>

\* one iteration of the for loop
ReplayIterate ==
  /\ result.op = "replayLoop"
  /\ LET windowSamples ==
           getWindowSamples(samples, call.startMin, call.endMin)
     IN  /\ index < Len(windowSamples)
         /\ LET sample == windowSamples[index + 1]
                step   == simulateStep(sample, context, calledModeUsed,
                                       socPct,
                                       calledReserveUsed * SOC_UNITS_PER_PCT,
                                       calledPeakStartMin)
            IN  /\ pushed' = sample
                /\ socPct' = step.nextSocPct
                /\ result' = [result EXCEPT
                                !.socBefore = socPct,
                                !.step = step,
                                !.totals = accumulateTotals(result.totals,
                                                            step.batteryKw,
                                                            step.gridKw)]
  /\ index' = index + 1
  /\ UNCHANGED <<profile, samples, context, call>>

\* after the loop: finalizeSummary and the return
ReplayFinish ==
  /\ result.op = "replayLoop"
  /\ LET windowSamples ==
           getWindowSamples(samples, call.startMin, call.endMin)
     IN  /\ index = Len(windowSamples)
         /\ result' =
              [op |-> "replayWindow",
               replay |-> replayReturn(
                            summarizeWindow(windowSamples, context),
                            finalizeSummary(result.replayStartSoc, socPct,
                                            result.totals),
                            calledModeUsed, calledReserveUsed)]
  /\ UNCHANGED <<genVars, samples, context, call>>

\* the caller has the result; the locals are gone
ReplayReturned ==
  /\ result.op = "replayWindow"
  /\ call' = NoCall
  /\ result' = NoCall
  /\ index' = 0
  /\ socPct' = 0
  /\ pushed' = NoSample
  /\ UNCHANGED <<profile, samples, context>>

ReplayNext ==
  \/ \E overrides \in ReplayLoopOverrides :
       ReplayEnter(0, MINUTES_PER_DAY, overrides)
  \/ ReplayIterate
  \/ ReplayFinish
  \/ ReplayReturned

SpecReplay == ReplayInit /\ [][ReplayNext]_vars

-----------------------------------------------------------------------------
(* The generator loop on its own, for any inputs of the two load models *)

\* Start of buildStoryDaySamples: empty array, socPct = SOC_START_PCT.
GenInit ==
  /\ profile \in Profiles
  /\ index = 0
  /\ socPct = SOC_START_PCT * SOC_UNITS_PER_PCT
  /\ pushed = NoSample
  /\ samples = <<>>
  /\ context = storyDayContext
  /\ call = NoCall
  /\ result = NoCall

\* One loop iteration.  On the story day the array is kept; on the other
\* profile only the pushed sample is, which is what the per-sample
\* properties read.
GenStep ==
  /\ index < SAMPLE_COUNT
  /\ \E solarKw \in solarKwChoices(profile, index),
        homeKw \in homeKwChoices(profile, index),
        halfDown \in halfDownChoices(profile, index) :
       LET it == genIteration(index, socPct, solarKw, homeKw, halfDown)
       IN  /\ pushed' = it.sample
           /\ socPct' = it.socPct
           /\ samples' = IF profile = "story day"
                         THEN Append(samples, it.sample) ELSE samples
  /\ index' = index + 1
  /\ UNCHANGED <<profile, context, call, result>>

GenNext == GenStep

SpecGen == GenInit /\ [][GenNext]_vars

-----------------------------------------------------------------------------
(* The range control, src/src/components/RangeSlider.tsx, as the Energy     *)
(* screen (src/unnamed/part_006) mounts it.  The file holds two versions of *)
(* the component, one on PanResponder and one on gesture-handler pan        *)
(* gestures; profile says which one is mounted.  result is the component    *)
(* with its props, refs and shared values, call the onChange emission of    *)
(* the last handler.  Positions and translations are counted in units of    *)
(* trackWidth / (POSITION_UNITS_PER_MINUTE * range), so that a position p   *)
(* is the value min + p / POSITION_UNITS_PER_MINUTE.                        *)

WINDOW_STEP_MINUTES == 5

MIN_WINDOW_MINUTES == 30

DEFAULT_START_MIN == 17 * 60

DEFAULT_END_MIN == 19 * 60

POSITION_UNITS_PER_MINUTE == 2

\* the props the screen passes
sliderProps ==
  [min |-> 0, max |-> MINUTES_PER_DAY, step |-> WINDOW_STEP_MINUTES,
   minGap |-> MIN_WINDOW_MINUTES]

sliderRange == Max(1, sliderProps.max - sliderProps.min)

\* trackWidth and minGapPx in position units
sliderWidth == POSITION_UNITS_PER_MINUTE * sliderRange

sliderMinGapPx == POSITION_UNITS_PER_MINUTE * sliderProps.minGap

SliderVersions == {"PanResponder", "Gesture"}

\* finger translations (gestureState.dx, event.translationX) in position
\* units: -362, -181.5, +178.5 and +358 minutes of track
Translations == {-724, -363, 357, 716}

\* Math.round(value / step) * step of the value units / POSITION_UNITS_PER_MINUTE
snapToStep(units, step) ==
  MathRound(units, POSITION_UNITS_PER_MINUTE * step) * step

\* valueToPosition(value, trackWidth)
valueToPosition(value) ==
  clamp(POSITION_UNITS_PER_MINUTE * (value - sliderProps.min), 0, sliderWidth)

\* min + (position / width) * range, in units of 1 / POSITION_UNITS_PER_MINUTE
positionToValueUnits(position) ==
  POSITION_UNITS_PER_MINUTE * sliderProps.min + position

\* the screen's handleRangeChange: the emitted pair becomes the props
handleRangeChange(slider, startValue, endValue) ==
  [slider EXCEPT !.startValue = startValue, !.endValue = endValue]

onChangeCall(startValue, endValue) ==
  [op |-> "onChange", startValue |-> startValue, endValue |-> endValue]

\* emitRange of the gesture version, its arguments in value units: the
\* slider after it and the call it made, if any
emitRange(slider, nextStart, nextEnd) ==
  LET safeStart == clamp(MathRound(nextStart, POSITION_UNITS_PER_MINUTE),
                         sliderProps.min, sliderProps.max)
      safeEnd   == clamp(MathRound(nextEnd, POSITION_UNITS_PER_MINUTE),
                         sliderProps.min, sliderProps.max)
  IN  IF slider.emittedRange = [start |-> safeStart, end |-> safeEnd]
      THEN [slider |-> slider, emitted |-> NoCall]
      ELSE [slider |->
              handleRangeChange(
                [slider EXCEPT !.emittedRange =
                                 [start |-> safeStart, end |-> safeEnd]],
                safeStart, safeEnd),
            emitted |-> onChangeCall(safeStart, safeEnd)]

\* the effect on [startValue, endValue, ...] of the gesture version, run
\* after a render in which the props changed
syncPositions(before, slider) ==
  IF slider.isDragging
     \/ (before.startValue = slider.startValue
         /\ before.endValue = slider.endValue)
  THEN slider
  ELSE LET clampedStart == clamp(valueToPosition(slider.startValue), 0,
                                 sliderWidth - sliderMinGapPx)
           clampedEnd   == clamp(valueToPosition(slider.endValue),
                                 clampedStart + sliderMinGapPx, sliderWidth)
       IN  [slider EXCEPT
              !.startPosition = clampedStart,
              !.endPosition = clampedEnd,
              !.emittedRange = [start |-> slider.startValue,
                                end |-> slider.endValue]]

\* the component mounted, laid out and idle
mountedSlider ==
  [ op |-> "RangeSlider",
    startValue |-> DEFAULT_START_MIN,
    endValue |-> DEFAULT_END_MIN,
    startValueAtGrant |-> DEFAULT_START_MIN,
    endValueAtGrant |-> DEFAULT_END_MIN,
    startPosition |-> valueToPosition(DEFAULT_START_MIN),
    endPosition |-> valueToPosition(DEFAULT_END_MIN),
    startGestureOrigin |-> 0,
    endGestureOrigin |-> 0,
    emittedRange |-> [start |-> DEFAULT_START_MIN, end |-> DEFAULT_END_MIN],
    isDragging |-> FALSE,
    startActive |-> FALSE,
    endActive |-> FALSE ]

\* the component does not read the day's samples: the generator's variables
\* stay as before the loop
SliderInit ==
  /\ profile \in SliderVersions
  /\ index = 0
  /\ socPct = SOC_START_PCT * SOC_UNITS_PER_PCT
  /\ pushed = NoSample
  /\ samples = <<>>
  /\ context = storyDayContext
  /\ call = NoCall
  /\ result = mountedSlider

sliderFrame == UNCHANGED <<profile, index, socPct, pushed, samples, context>>

\* PanResponder version.  The responder system has one responder at a time.
StartThumbGrant ==
  /\ profile = "PanResponder"
  /\ ~result.startActive /\ ~result.endActive
  /\ result' = [result EXCEPT !.startValueAtGrant = result.startValue,
                              !.startActive = TRUE]
  /\ call' = NoCall
  /\ sliderFrame

StartThumbMove(dx) ==
  /\ profile = "PanResponder"
  /\ result.startActive
  /\ LET rawNextStart == POSITION_UNITS_PER_MINUTE * result.startValueAtGrant
                         + dx
         stepped      == snapToStep(rawNextStart, sliderProps.step)
         maxStart     == result.endValue - sliderProps.minGap
         clampedStart == clamp(stepped, sliderProps.min, maxStart)
     IN  /\ call' = onChangeCall(clampedStart, result.endValue)
         /\ result' = handleRangeChange(result, clampedStart, result.endValue)
  /\ sliderFrame

StartThumbRelease ==
  /\ profile = "PanResponder"
  /\ result.startActive
  /\ result' = [result EXCEPT !.startActive = FALSE]
  /\ call' = NoCall
  /\ sliderFrame

EndThumbGrant ==
  /\ profile = "PanResponder"
  /\ ~result.startActive /\ ~result.endActive
  /\ result' = [result EXCEPT !.endValueAtGrant = result.endValue,
                              !.endActive = TRUE]
  /\ call' = NoCall
  /\ sliderFrame

EndThumbMove(dx) ==
  /\ profile = "PanResponder"
  /\ result.endActive
  /\ LET rawNextEnd == POSITION_UNITS_PER_MINUTE * result.endValueAtGrant + dx
         stepped    == snapToStep(rawNextEnd, sliderProps.step)
         minEnd     == result.startValue + sliderProps.minGap
         clampedEnd == clamp(stepped, minEnd, sliderProps.max)
     IN  /\ call' = onChangeCall(result.startValue, clampedEnd)
         /\ result' = handleRangeChange(result, result.startValue, clampedEnd)
  /\ sliderFrame

EndThumbRelease ==
  /\ profile = "PanResponder"
  /\ result.endActive
  /\ result' = [result EXCEPT !.endActive = FALSE]
  /\ call' = NoCall
  /\ sliderFrame

\* Gesture version.  Each thumb has its own pan gesture; two fingers can
\* hold both.
StartGestureBegin ==
  /\ profile = "Gesture"
  /\ ~result.startActive
  /\ result' = [result EXCEPT !.startGestureOrigin = result.startPosition,
                              !.isDragging = TRUE,
                              !.startActive = TRUE]
  /\ call' = NoCall
  /\ sliderFrame

StartGestureUpdate(translationX) ==
  /\ profile = "Gesture"
  /\ result.startActive
  /\ LET maxStartPosition  == result.endPosition - sliderMinGapPx
         nextStartPosition == clamp(result.startGestureOrigin + translationX,
                                    0, maxStartPosition)
         moved   == [result EXCEPT !.startPosition = nextStartPosition]
         emitted == emitRange(moved, positionToValueUnits(nextStartPosition),
                              positionToValueUnits(result.endPosition))
     IN  /\ call' = emitted.emitted
         /\ result' = syncPositions(result, emitted.slider)
  /\ sliderFrame

StartGestureFinalize ==
  /\ profile = "Gesture"
  /\ result.startActive
  /\ LET snappedEndValue ==
           snapToStep(positionToValueUnits(result.endPosition),
                      sliderProps.step)
         maxStartValue == snappedEndValue - sliderProps.minGap
         snappedStartValue ==
           clamp(snapToStep(positionToValueUnits(result.startPosition),
                            sliderProps.step),
                 sliderProps.min, maxStartValue)
         snapped ==
           [result EXCEPT
              !.startPosition =
                clamp(POSITION_UNITS_PER_MINUTE
                        * (snappedStartValue - sliderProps.min),
                      0, sliderWidth),
              !.endPosition =
                clamp(POSITION_UNITS_PER_MINUTE
                        * (snappedEndValue - sliderProps.min),
                      0, sliderWidth)]
         emitted == emitRange(snapped,
                              POSITION_UNITS_PER_MINUTE * snappedStartValue,
                              POSITION_UNITS_PER_MINUTE * snappedEndValue)
     IN  /\ call' = emitted.emitted
         /\ result' = syncPositions(result,
                        [emitted.slider EXCEPT !.isDragging = FALSE,
                                               !.startActive = FALSE])
  /\ sliderFrame

EndGestureBegin ==
  /\ profile = "Gesture"
  /\ ~result.endActive
  /\ result' = [result EXCEPT !.endGestureOrigin = result.endPosition,
                              !.isDragging = TRUE,
                              !.endActive = TRUE]
  /\ call' = NoCall
  /\ sliderFrame

EndGestureUpdate(translationX) ==
  /\ profile = "Gesture"
  /\ result.endActive
  /\ LET minEndPosition  == result.startPosition + sliderMinGapPx
         nextEndPosition == clamp(result.endGestureOrigin + translationX,
                                  minEndPosition, sliderWidth)
         moved   == [result EXCEPT !.endPosition = nextEndPosition]
         emitted == emitRange(moved,
                              positionToValueUnits(result.startPosition),
                              positionToValueUnits(nextEndPosition))
     IN  /\ call' = emitted.emitted
         /\ result' = syncPositions(result, emitted.slider)
  /\ sliderFrame

EndGestureFinalize ==
  /\ profile = "Gesture"
  /\ result.endActive
  /\ LET snappedStartValue ==
           snapToStep(positionToValueUnits(result.startPosition),
                      sliderProps.step)
         minEndValue == snappedStartValue + sliderProps.minGap
         snappedEndValue ==
           clamp(snapToStep(positionToValueUnits(result.endPosition),
                            sliderProps.step),
                 minEndValue, sliderProps.max)
         snapped ==
           [result EXCEPT
              !.startPosition =
                clamp(POSITION_UNITS_PER_MINUTE
                        * (snappedStartValue - sliderProps.min),
                      0, sliderWidth),
              !.endPosition =
                clamp(POSITION_UNITS_PER_MINUTE
                        * (snappedEndValue - sliderProps.min),
                      0, sliderWidth)]
         emitted == emitRange(snapped,
                              POSITION_UNITS_PER_MINUTE * snappedStartValue,
                              POSITION_UNITS_PER_MINUTE * snappedEndValue)
     IN  /\ call' = emitted.emitted
         /\ result' = syncPositions(result,
                        [emitted.slider EXCEPT !.isDragging = FALSE,
                                               !.endActive = FALSE])
  /\ sliderFrame

SliderNext ==
  \/ StartThumbGrant
  \/ \E dx \in Translations : StartThumbMove(dx)
  \/ StartThumbRelease
  \/ EndThumbGrant
  \/ \E dx \in Translations : EndThumbMove(dx)
  \/ EndThumbRelease
  \/ StartGestureBegin
  \/ \E translationX \in Translations : StartGestureUpdate(translationX)
  \/ StartGestureFinalize
  \/ EndGestureBegin
  \/ \E translationX \in Translations : EndGestureUpdate(translationX)
  \/ EndGestureFinalize

SpecSlider == SliderInit /\ [][SliderNext]_vars

-----------------------------------------------------------------------------
(* Properties of the explanation timeline *)

timelineReturned == result.op = "buildExplainTimeline"

\* the window samples of the call that produced the current result
calledWindowSamples == getWindowSamples(samples, call.startMin, call.endMin)

\* the events of the current result before sorting, in push order
calledNormalizedEvents ==
  normalizeFrom(rawEventsOf(calledWindowSamples, context,
                            call.startMin, call.endMin),
                1, {}, call.startMin, call.endMin)

\* C1: all events returned by buildExplainTimeline have pairwise distinct
\* timestamps, also when an event is proposed at the last slot of the window
\* and that slot is taken, and for one-sample windows.
C1_DistinctTimestamps ==
  timelineReturned =>
    \A i, j \in 1 .. Len(result.events) :
      i # j => result.events[i].tsMin # result.events[j].tsMin

\* C2: every returned event's timestamp lies in the half-open selected
\* window, startMin <= tsMin < endMin.
C2_TimestampsInWindow ==
  timelineReturned =>
    \A i \in 1 .. Len(result.events) :
      /\ call.startMin <= result.events[i].tsMin
      /\ result.events[i].tsMin < call.endMin

\* C3: buildExplainTimeline returns at most 10 events, ordered by ascending
\* final timestamp.
C3_AtMostTenAscending ==
  timelineReturned =>
    /\ Len(result.events) <= 10
    /\ \A i, j \in 1 .. Len(result.events) :
         i < j => result.events[i].tsMin <= result.events[j].tsMin

\* C3 witness: a timeline of three or more events whose events were pushed
\* out of timestamp order, so that the sort moved them.
C3_Witness ==
  /\ timelineReturned
  /\ Len(result.events) >= 3
  /\ \E i, j \in 1 .. Len(calledNormalizedEvents) :
       i < j /\ calledNormalizedEvents[i].tsMin > calledNormalizedEvents[j].tsMin

\* C4: in every reason of every returned event the evidence list has at
\* most 3 entries and its last entry is the event's time label, also when
\* the detector supplied 3 evidence strings.
C4_EvidenceEndsWithTimeLabel ==
  timelineReturned =>
    \A i \in 1 .. Len(result.events) :
      \A r \in 1 .. Len(result.events[i].reasons) :
        LET evidence == result.events[i].reasons[r].evidence
        IN  /\ Len(evidence) <= 3
            /\ Len(evidence) >= 1
            /\ evidence[Len(evidence)][1] = "Event time"
            /\ evidence[Len(evidence)]
                 = eventTimeEvidence(result.events[i].tsMin)

\* the overrides that repeat the ambient context: same mode, same backup
\* reserve, same peak start
ambientOverrides ==
  [ mode |-> <<context.mode>>,
    backupReservePct |-> <<context.backupReservePct>>,
    peakStartMin |-> <<context.peakWindow.startMin>> ]

\* C5: replayWindow called with overrides equal to the ambient context
\* yields deltas of 0 for end SOC, grid import and battery discharge, here
\* up to one unit of the last rounded digit (0.1 % and 0.01 kWh).
C5_AmbientReplayHasZeroDeltas ==
  (result.op = "replayWindow" /\ call.overrides = ambientOverrides) =>
    /\ Abs(result.replay.deltas.endSocPct) <= 1
    /\ Abs(result.replay.deltas.gridImportKwh) <= 1
    /\ Abs(result.replay.deltas.batteryDischargeKwh) <= 1

\* C6: every generated sample satisfies gridKw = homeKw - solarKw + batteryKw
\* within 0.01 kW on the stored values (1 centi-kW).
C6_PowerBalance ==
  pushed # NoSample =>
    Abs(pushed.gridKw - (pushed.homeKw - pushed.solarKw + pushed.batteryKw))
      <= 1

\* C6 witness: a generated sample of the peak window whose battery is
\* discharging at its cap while the site still imports the rest.
C6_Witness ==
  /\ pushed # NoSample
  /\ isInWindow(pushed.ts, context.peakWindow)
  /\ pushed.batteryKw < 0
  /\ pushed.gridKw > 0

\* C7: every generated sample's socPct lies within [backupReservePct, 100]
\* (stored SOC in tenths of a percent).
C7_SocWithinReserveAndFull ==
  pushed # NoSample =>
    /\ context.backupReservePct * 10 <= pushed.socPct
    /\ pushed.socPct <= 100 * 10

\* C7 witness: a sample pushed by a discharging step that brought the SOC
\* to within 2 % of the reserve.
C7_Witness ==
  /\ pushed # NoSample
  /\ pushed.batteryKw < 0
  /\ pushed.socPct < (context.backupReservePct + 2) * 10

windowFilterReturned ==
  result.op \in {"getWindowSamples", "getSamplesInWindow"}

\* the window filter of the current call, applied to the array day
calledWindowFilter(day, startMin, endMin) ==
  IF call.op = "getWindowSamples"
  THEN getWindowSamples(day, startMin, endMin)
  ELSE getSamplesInWindow(day, startMin, endMin)

\* C8: the window filter (getWindowSamples and getSamplesInWindow alike)
\* keeps the samples in their order, returns its own output when that is
\* filtered again with the same bounds, and returns the same samples when
\* start and end are swapped.
C8_WindowFilterLaws ==
  windowFilterReturned =>
    LET out == result.samples
        kept(sample) == \E k \in 1 .. Len(out) : out[k] = sample
    IN  /\ out = SelectSeq(samples, kept)
        /\ calledWindowFilter(out, call.startMin, call.endMin) = out
        /\ calledWindowFilter(samples, call.endMin, call.startMin) = out

\* C8 witness: getWindowSamples called with start after end returned
\* several samples.
C8_Witness ==
  /\ windowFilterReturned
  /\ call.startMin > call.endMin
  /\ Len(result.samples) > 1
  /\ call.op = "getWindowSamples"

\* C9: for any integer bounds getWindowSamples selects the samples of the
\* window snapped to the 5-minute grid and clamped to the day, the same
\* samples as getSamplesInWindow.
C9_CoreFilterSnapsAndClamps ==
  result.op = "getWindowSamples" =>
    result.samples = getSamplesInWindow(samples, call.startMin, call.endMin)

\* C10: each energy total of summarizeWindow is the sum of one sign only of
\* the power over the window's samples times 5/60 h (up to the final
\* rounding, half a centi-kWh), every total is >= 0, and import - export is
\* the net integrated grid energy up to the two roundings.
C10_OneSignTotals ==
  result.op = "summarizeWindow" =>
    LET ws       == calledWindowSamples
        n        == Len(ws)
        sum      == result.summary
        imported == SumSeq([i \in 1 .. n |-> Max(ws[i].gridKw, 0)])
        exported == SumSeq([i \in 1 .. n |-> Max(-ws[i].gridKw, 0)])
        charged  == SumSeq([i \in 1 .. n |-> Max(ws[i].batteryKw, 0)])
        discharged == SumSeq([i \in 1 .. n |-> Max(-ws[i].batteryKw, 0)])
        net      == SumSeq([i \in 1 .. n |-> ws[i].gridKw])
        near(total, sumKw) ==
          Abs(total * STEPS_PER_HOUR - sumKw) * 2 <= STEPS_PER_HOUR
    IN  /\ sum.totalGridImportKwhApprox >= 0
        /\ sum.totalGridExportKwhApprox >= 0
        /\ sum.totalBatteryChargeKwhApprox >= 0
        /\ sum.totalBatteryDischargeKwhApprox >= 0
        /\ near(sum.totalGridImportKwhApprox, imported)
        /\ near(sum.totalGridExportKwhApprox, exported)
        /\ near(sum.totalBatteryChargeKwhApprox, charged)
        /\ near(sum.totalBatteryDischargeKwhApprox, discharged)
        /\ Abs((sum.totalGridImportKwhApprox - sum.totalGridExportKwhApprox)
               * STEPS_PER_HOUR - net) <= STEPS_PER_HOUR

\* C10 witness: a summary of a window in which the site both imported and
\* exported and the battery both charged and discharged.
C10_Witness ==
  /\ result.op = "summarizeWindow"
  /\ result.summary.totalGridImportKwhApprox > 0
  /\ result.summary.totalGridExportKwhApprox > 0
  /\ result.summary.totalBatteryChargeKwhApprox > 0
  /\ result.summary.totalBatteryDischargeKwhApprox > 0

\* the fields of a window summary
SummaryFields ==
  {"startSoc", "endSoc", "minSoc", "maxSoc", "totalGridImportKwhApprox",
   "totalGridExportKwhApprox", "totalBatteryChargeKwhApprox",
   "totalBatteryDischargeKwhApprox"}

\* C11: summarizeWindow on an empty sample list returns a summary with
\* exactly the eight fields, all 0.
C11_EmptySummaryAllZero ==
  (result.op = "summarizeWindow" /\ Len(calledWindowSamples) = 0) =>
    /\ DOMAIN result.summary = SummaryFields
    /\ \A f \in SummaryFields : result.summary[f] = 0

\* C11 witness: summarizeWindow has returned for a window of the day that
\* selects no sample.
C11_Witness ==
  /\ result.op = "summarizeWindow"
  /\ Len(calledWindowSamples) = 0
  /\ call.startMin >= 0
  /\ call.startMin < MINUTES_PER_DAY

\* C12: buildExplainTimeline returns an empty list exactly when the window
\* contains no samples; with at least one sample there is at least one
\* event, and a 'Stable operation' info event is the only event of its
\* timeline.
C12_EmptyTimelineAndStableEvent ==
  timelineReturned =>
    /\ (Len(result.events) = 0) <=> (Len(calledWindowSamples) = 0)
    /\ \A i \in 1 .. Len(result.events) :
         (result.events[i].title = "Stable operation"
            \/ result.events[i].type = "info") =>
           /\ Len(result.events) = 1
           /\ result.events[i].title = "Stable operation"
           /\ result.events[i].type = "info"
           /\ Len(result.events[i].reasons) = 1
           /\ result.events[i].reasons[1].code = "HOLDING_CHARGE"

\* C12 witness: a timeline of a window with samples that holds the
\* 'Stable operation' event.
C12_Witness ==
  /\ timelineReturned
  /\ Len(calledWindowSamples) > 0
  /\ Len(result.events) = 1
  /\ result.events[1].title = "Stable operation"

\* C12 witness of the other cases: a timeline of detector events only, and
\* an empty timeline of a window without samples (checked with C12_Witness
\* in separate runs).
C12_WitnessDetected ==
  /\ timelineReturned
  /\ Len(result.events) >= 2
  /\ \A i \in 1 .. Len(result.events) : result.events[i].type # "info"

replayReturned == result.op = "replayWindow"

\* the value an override stands for: its own when present, else the ambient
overrideOrAmbient(opt, ambient) == IF Len(opt) = 0 THEN ambient ELSE opt[1]

\* the simulation of the called window stepped with the given mode, reserve
\* and peak start, summarized
calledSimulation(modeUsed, reservePct, peakStartMin) ==
  LET ws == calledWindowSamples
      startSoc == ws[1].socPct * SOC_UNITS_PER_TENTH
      final == replayLoop([ socPct |-> startSoc,
                            totals |-> [gridImport |-> 0, gridExport |-> 0,
                                        batteryCharge |-> 0,
                                        batteryDischarge |-> 0] ],
                          ws, 1, Len(ws), context, modeUsed,
                          reservePct * SOC_UNITS_PER_PCT, peakStartMin)
  IN  finalizeSummary(startSoc, final.socPct, final.totals)

\* C13: in replayWindow each omitted override falls back to the ambient
\* context value, and modeUsed and reserveUsed are the mode and reserve the
\* simulation stepped with, for every combination of present and absent
\* overrides, the empty window included.
C13_OverridesFallBackToAmbient ==
  replayReturned =>
    LET o            == call.overrides
        modeUsed     == overrideOrAmbient(o.mode, context.mode)
        reserveUsed  == overrideOrAmbient(o.backupReservePct,
                                          context.backupReservePct)
        peakStartMin == overrideOrAmbient(o.peakStartMin,
                                          context.peakWindow.startMin)
        spelledOut   == [ mode |-> <<modeUsed>>,
                          backupReservePct |-> <<reserveUsed>>,
                          peakStartMin |-> <<peakStartMin>> ]
    IN  /\ result.replay.modeUsed = modeUsed
        /\ result.replay.reserveUsed = reserveUsed
        /\ result.replay = replayWindow(samples, context, call.startMin,
                                        call.endMin, spelledOut)
        /\ Len(calledWindowSamples) > 0 =>
             result.replay.replay
               = calledSimulation(modeUsed, reserveUsed, peakStartMin)

\* C13 witness: a replay of a window with samples in which the mode and the
\* peak start were omitted and the reserve was given, different from the
\* ambient one, and the replay differs from the all-ambient one.
C13_Witness ==
  /\ replayReturned
  /\ Len(calledWindowSamples) > 0
  /\ call.overrides.mode = <<>>
  /\ call.overrides.peakStartMin = <<>>
  /\ call.overrides.backupReservePct # <<>>
  /\ result.replay.reserveUsed # context.backupReservePct
  /\ result.replay.modeUsed = context.mode
  /\ result.replay.replay
       # calledSimulation(context.mode, context.backupReservePct,
                          context.peakWindow.startMin)

\* the fields of the actual and replay summaries of a replay result
ReplaySummaryFields ==
  {"startSoc", "endSoc", "totalGridImportKwhApprox",
   "totalGridExportKwhApprox", "totalBatteryChargeKwhApprox",
   "totalBatteryDischargeKwhApprox"}

\* C14: the three deltas of replayWindow are replayed minus actual, and
\* 'actual' equals summarizeWindow of the same window's samples.
C14_DeltasAreReplayMinusActual ==
  replayReturned =>
    LET r       == result.replay
        summary == summarizeWindow(calledWindowSamples, context)
    IN  /\ r.deltas.endSocPct = r.replay.endSoc - r.actual.endSoc
        /\ r.deltas.gridImportKwh
             = r.replay.totalGridImportKwhApprox
               - r.actual.totalGridImportKwhApprox
        /\ r.deltas.batteryDischargeKwh
             = r.replay.totalBatteryDischargeKwhApprox
               - r.actual.totalBatteryDischargeKwhApprox
        /\ DOMAIN r.actual = ReplaySummaryFields
        /\ \A f \in ReplaySummaryFields : r.actual[f] = summary[f]

\* C14 witness: a replay whose three deltas are all non-zero, the end SOC
\* lower and the discharge higher than the actual ones.
C14_Witness ==
  /\ replayReturned
  /\ result.replay.deltas.endSocPct < 0
  /\ result.replay.deltas.gridImportKwh # 0
  /\ result.replay.deltas.batteryDischargeKwh > 0

\* C15: replayWindow on a window that contains no samples returns actual
\* and replay summaries whose fields are all 0 and three deltas equal to 0,
\* for any overrides.
C15_EmptyReplayAllZero ==
  (replayReturned /\ Len(calledWindowSamples) = 0) =>
    LET r == result.replay
    IN  /\ DOMAIN r.actual = ReplaySummaryFields
        /\ DOMAIN r.replay = ReplaySummaryFields
        /\ \A f \in ReplaySummaryFields : r.actual[f] = 0 /\ r.replay[f] = 0
        /\ r.deltas = [endSocPct |-> 0, gridImportKwh |-> 0,
                       batteryDischargeKwh |-> 0]

\* C15 witness: a replay of a window without samples, called with a mode
\* and a reserve that differ from the ambient ones.
C15_Witness ==
  /\ replayReturned
  /\ Len(calledWindowSamples) = 0
  /\ call.overrides.mode = <<"Self-Powered">>
  /\ call.overrides.backupReservePct = <<80>>
  /\ call.overrides.peakStartMin # <<>>

\* C16: replayWindow and buildExplainTimeline leave the shared context
\* record and the sample array as they were when the day was built, and
\* after any sequence of calls a call returns what its arguments alone
\* determine: the value for the day and the context as first built.
C16_CallsLeaveContextAndSamples ==
  /\ samples = storyDaySamples
  /\ context = storyDayContext
  /\ replayReturned =>
       result.replay = replayWindow(storyDaySamples, storyDayContext,
                                    call.startMin, call.endMin,
                                    call.overrides)
  /\ timelineReturned =>
       result.events = buildExplainTimeline(storyDaySamples, storyDayContext,
                                            call.startMin, call.endMin)

\* C16 witness: a replay that stepped with a mode and a reserve other than
\* the context's has returned, for a window with samples.
C16_Witness ==
  /\ replayReturned
  /\ Len(calledWindowSamples) > 0
  /\ result.replay.modeUsed # context.mode
  /\ result.replay.reserveUsed # context.backupReservePct
  /\ result.replay.replay.endSoc # result.replay.actual.endSoc

\* the whole days a minute is shifted by
DayShifts == (-3) .. 3

\* C17: minutesToLabel(m) = minutesToLabel(m + 1440 k) for all integers m
\* and k, negatives included, and the label shows an hour in 1..12, a
\* minute in 00..59 and AM exactly when (m mod 1440) < 720.
C17_LabelStableModuloDay ==
  result.op = "minutesToLabel" =>
    LET m     == call.minute
        label == result.label
    IN  /\ \A k \in DayShifts :
             minutesToLabel(m + MINUTES_PER_DAY * k) = label
        /\ label.hours12 \in 1 .. 12
        /\ label.mins \in 0 .. 59
        /\ label.meridiem \in {"AM", "PM"}
        /\ (label.meridiem = "AM") <=> (m % MINUTES_PER_DAY < 720)

\* C17 witness: the label of a negative minute that is no multiple of an
\* hour, in the afternoon of the day before.
C17_Witness ==
  /\ result.op = "minutesToLabel"
  /\ call.minute < 0
  /\ result.label.mins # 0
  /\ result.label.meridiem = "PM"

\* the selected window with its bounds in order
calledLo == Min(call.startMin, call.endMin)

calledHi == Max(call.startMin, call.endMin)

\* the positions of the returned events with the given title
eventsTitled(title) ==
  {i \in 1 .. Len(result.events) : result.events[i].title = title}

\* C18: for any window containing at least one sample, the timeline holds a
\* 'Peak rate period' event (type rate, reason TBC_PEAK_AVOIDANCE) if and
\* only if the selected window overlaps the context peak window, and that
\* event's timestamp is the overlap start max(startMin, peakWindow.startMin).
C18_PeakEventIffOverlap ==
  (timelineReturned /\ Len(calledWindowSamples) > 0) =>
    LET overlapStart == Max(calledLo, context.peakWindow.startMin)
        overlapEnd   == Min(calledHi, context.peakWindow.endMin)
        peakEvents   == eventsTitled("Peak rate period")
    IN  /\ (peakEvents # {}) <=> (overlapStart < overlapEnd)
        /\ \A i \in peakEvents :
             /\ result.events[i].type = "rate"
             /\ Len(result.events[i].reasons) = 1
             /\ result.events[i].reasons[1].code = "TBC_PEAK_AVOIDANCE"
             /\ result.events[i].tsMin = overlapStart

\* whether the storm overlap applies to the selected window: it overlaps
\* the storm-watch window and storm watch is enabled
calledStormOverlapStart == Max(calledLo, context.stormWatchWindow.startMin)

calledStormOverlaps ==
  calledStormOverlapStart < Min(calledHi, context.stormWatchWindow.endMin)

calledStormApplies == calledStormOverlaps /\ context.stormWatchEnabled

\* C19: a 'Storm Watch' event is emitted if and only if the window overlaps
\* the storm-watch window and stormWatchEnabled is true; when storm watch is
\* disabled no event or reason carries the code STORM_WATCH_PRECHARGE; the
\* event is anchored at the overlap start, shifted only if that timestamp is
\* already used by the peak event.
C19_StormEventIffOverlapAndEnabled ==
  (timelineReturned /\ Len(calledWindowSamples) > 0) =>
    LET stormEvents == eventsTitled("Storm Watch")
        peakEvents  == eventsTitled("Peak rate period")
    IN  /\ (stormEvents # {}) <=> calledStormApplies
        /\ ~context.stormWatchEnabled =>
             \A i \in 1 .. Len(result.events) :
               /\ result.events[i].type # "storm"
               /\ \A r \in 1 .. Len(result.events[i].reasons) :
                    result.events[i].reasons[r].code # "STORM_WATCH_PRECHARGE"
        /\ \A i \in stormEvents :
             /\ result.events[i].type = "storm"
             /\ Len(result.events[i].reasons) = 1
             /\ result.events[i].reasons[1].code = "STORM_WATCH_PRECHARGE"
             /\ \/ result.events[i].tsMin = calledStormOverlapStart
                \/ \E j \in peakEvents :
                     result.events[j].tsMin = calledStormOverlapStart

\* the codes and confidences of the reasons of an event, in order
reasonsOf(event) ==
  [r \in 1 .. Len(event.reasons) |->
     <<event.reasons[r].code, event.reasons[r].confidence>>]

\* C20: when the window's average battery power is > 0.4 kW a 'Battery
\* charging' event is emitted whose reasons are, in order,
\* STORM_WATCH_PRECHARGE if the storm overlap applies, SOLAR_SURPLUS_CHARGE
\* if average solar exceeds average home by > 0.3 kW (Medium when the
\* storm-watch reason is also attached, High otherwise), and a
\* Low-confidence HOLDING_CHARGE only if neither applied.
C20_ChargingEventReasons ==
  (timelineReturned /\ Len(calledWindowSamples) > 0) =>
    LET ws           == calledWindowSamples
        n            == Len(ws)
        netCharging  == SumSeq([i \in 1 .. n |-> ws[i].batteryKw]) > 40 * n
        solarSurplus == SumSeq([i \in 1 .. n |-> ws[i].solarKw])
                          > SumSeq([i \in 1 .. n |-> ws[i].homeKw]) + 30 * n
        stormReason  == IF calledStormApplies
                        THEN << <<"STORM_WATCH_PRECHARGE", "High">> >>
                        ELSE <<>>
        solarReason  == IF solarSurplus
                        THEN << <<"SOLAR_SURPLUS_CHARGE",
                                  IF calledStormApplies THEN "Medium"
                                  ELSE "High">> >>
                        ELSE <<>>
        expected     == IF Len(stormReason \o solarReason) = 0
                        THEN << <<"HOLDING_CHARGE", "Low">> >>
                        ELSE stormReason \o solarReason
        charging     == eventsTitled("Battery charging")
    IN  /\ (charging # {}) <=> netCharging
        /\ \A i \in charging :
             /\ result.events[i].type = "battery"
             /\ reasonsOf(result.events[i]) = expected

\* the raw events of the called window as the detectors pushed them, with
\* their proposed timestamps
calledRawEvents ==
  rawEventsOf(calledWindowSamples, context, call.startMin, call.endMin)

\* whether the selected window overlaps the context peak window
calledPeakOverlaps ==
  Max(calledLo, context.peakWindow.startMin)
    < Min(calledHi, context.peakWindow.endMin)

\* C21: when the window's average battery power is < -0.4 kW a 'Battery
\* discharging' event is emitted, proposed at the first sample with
\* batteryKw < -0.4, whose reasons are TBC_PEAK_AVOIDANCE if the window
\* overlaps the peak window, BACKUP_RESERVE_PROTECTION (Medium) if the
\* window's minimum SOC is within 2 points of the reserve, and a generic
\* HOLDING_CHARGE only if neither applied; it has at least one reason.
C21_DischargingEventReasons ==
  (timelineReturned /\ Len(calledWindowSamples) > 0) =>
    LET ws             == calledWindowSamples
        n              == Len(ws)
        netDischarging == SumSeq([i \in 1 .. n |-> ws[i].batteryKw]) < -40 * n
        discharges     == {i \in 1 .. n : ws[i].batteryKw < -40}
        minSoc         == SeqMin([i \in 1 .. n |-> ws[i].socPct])
        peakReason     == IF calledPeakOverlaps
                          THEN << <<"TBC_PEAK_AVOIDANCE", "High">> >>
                          ELSE <<>>
        reserveReason  == IF minSoc <= (context.backupReservePct + 2) * 10
                          THEN << <<"BACKUP_RESERVE_PROTECTION", "Medium">> >>
                          ELSE <<>>
        expected       == IF Len(peakReason \o reserveReason) = 0
                          THEN << <<"HOLDING_CHARGE", "Low">> >>
                          ELSE peakReason \o reserveReason
        discharging    == eventsTitled("Battery discharging")
        proposed       == {k \in 1 .. Len(calledRawEvents) :
                             calledRawEvents[k].title = "Battery discharging"}
    IN  /\ (discharging # {}) <=> netDischarging
        /\ (proposed # {}) <=> netDischarging
        /\ \A k \in proposed :
             /\ discharges # {}
             /\ \E i \in discharges :
                  /\ \A j \in discharges : i <= j
                  /\ calledRawEvents[k].proposedTsMin = ws[i].ts
        /\ \A i \in discharging :
             /\ result.events[i].type = "battery"
             /\ Len(result.events[i].reasons) >= 1
             /\ reasonsOf(result.events[i]) = expected

\* the positions in the called window that start 3 consecutive samples
\* exporting more than 0.6 kW
calledExportRuns ==
  {i \in 1 .. Len(calledWindowSamples) - 2 :
     \A j \in i .. i + 2 : calledWindowSamples[j].gridKw < -60}

\* C22: an 'Exporting to grid' event is emitted if and only if the window's
\* samples, scanned in order, contain at least 3 consecutive samples with
\* gridKw < -0.6; it is proposed at the timestamp of the first sample of the
\* earliest such run (a sample with gridKw >= -0.6 resets the run), with
\* confidence High if the window's total export exceeds 0.5 kWh and Medium
\* otherwise.
C22_ExportEventIffRunOfThree ==
  timelineReturned =>
    LET ws        == calledWindowSamples
        exporting == eventsTitled("Exporting to grid")
        proposed  == {k \in 1 .. Len(calledRawEvents) :
                        calledRawEvents[k].title = "Exporting to grid"}
        total     == summarizeWindow(ws, context).totalGridExportKwhApprox
    IN  /\ (exporting # {}) <=> (calledExportRuns # {})
        /\ (proposed # {}) <=> (calledExportRuns # {})
        /\ Cardinality(exporting) <= 1
        /\ \A k \in proposed :
             \E i \in calledExportRuns :
               /\ \A j \in calledExportRuns : i <= j
               /\ calledRawEvents[k].proposedTsMin = ws[i].ts
        /\ \A e \in exporting :
             /\ result.events[e].type = "grid"
             /\ reasonsOf(result.events[e]) =
                  << <<"EXPORTING_SURPLUS",
                       IF total > 50 THEN "High" ELSE "Medium">> >>

\* a window whose first sample exports, whose second, at exactly -0.6 kW,
\* resets the run, and whose event is proposed at the third sample
C22_Witness ==
  /\ timelineReturned
  /\ Len(calledWindowSamples) >= 5
  /\ calledWindowSamples[1].gridKw < -60
  /\ calledWindowSamples[2].gridKw = -60
  /\ \E k \in 1 .. Len(calledRawEvents) :
       /\ calledRawEvents[k].title = "Exporting to grid"
       /\ calledRawEvents[k].proposedTsMin = calledWindowSamples[3].ts
  /\ \E e \in eventsTitled("Exporting to grid") :
       result.events[e].reasons[1].confidence = "Medium"

\* the replay loop has just run an iteration: pushed is its sample,
\* result.socBefore the SOC it started from, result.step what it computed
replayStepMade == result.op = "replayLoop" /\ index > 0

\* 5 kW, 100 % and the reserve used, in the units of the step
fiveKw == 5 * 100 * FINE

fullSoc == 100 * SOC_UNITS_PER_PCT

reserveSoc == calledReserveUsed * SOC_UNITS_PER_PCT

\* the battery power of the Self-Powered policy for a sample and a SOC, as
\* the specification words it
selfPoweredBatteryKw(sample, soc) ==
  LET solar == sample.solarKw * FINE
      home  == sample.homeKw * FINE
  IN  IF solar > home THEN Min3(solar - home, fiveKw, fullSoc - soc)
      ELSE IF home > solar /\ soc > reserveSoc
           THEN -Min3(home - solar, fiveKw, soc - reserveSoc)
           ELSE 0

\* C23: in a Self-Powered replay step the battery power is
\* min(solar - home, 5, headroom to 100%) when solar exceeds home,
\* -min(home - solar, 5, headroom to reserve) when home exceeds solar and
\* the SOC is above reserve, and 0 otherwise; so the battery never charges
\* from grid import (batteryKw > 0 implies gridKw <= 0) and never discharges
\* into export (batteryKw < 0 implies gridKw >= 0).
C23_SelfPoweredStep ==
  (replayStepMade /\ calledModeUsed = "Self-Powered") =>
    /\ result.step.batteryKw = selfPoweredBatteryKw(pushed, result.socBefore)
    /\ (result.step.batteryKw > 0 => result.step.gridKw <= 0)
    /\ (result.step.batteryKw < 0 => result.step.gridKw >= 0)

\* a Self-Powered step whose discharge is cut by the headroom to the
\* reserve, the rest of the deficit imported
C23_Witness ==
  /\ replayStepMade
  /\ calledModeUsed = "Self-Powered"
  /\ result.step.batteryKw < 0
  /\ result.step.batteryKw = reserveSoc - result.socBefore
  /\ -result.step.batteryKw < fiveKw
  /\ result.step.gridKw > 0

\* the sample of the iteration lies in the peak window as overridden, in
\* the enabled storm-watch window
steppedInPeak ==
  pushed.ts >= calledPeakStartMin /\ pushed.ts < context.peakWindow.endMin

steppedInStorm ==
  /\ context.stormWatchEnabled
  /\ pushed.ts >= context.stormWatchWindow.startMin
  /\ pushed.ts < context.stormWatchWindow.endMin

steppedDeficitKw == Max(0, pushed.homeKw - pushed.solarKw) * FINE

\* C24: in a Time-Based replay step a sample inside the (possibly
\* overridden) peak window [peakStartMin, peakWindow.endMin) with SOC above
\* reserve discharges min(deficit + 0.35, 5, headroom to reserve), even if
\* it is also inside the storm window; otherwise a sample inside the enabled
\* storm window with SOC below max(reserve, 85) charges
\* min(deficit + 2.2, 5, headroom to 100%); otherwise the step is the
\* Self-Powered step for that sample and SOC.
C24_TimeBasedStepPriority ==
  (replayStepMade /\ calledModeUsed = "Time-Based Control") =>
    LET soc == result.socBefore
    IN  IF steppedInPeak /\ soc > reserveSoc THEN
          result.step.batteryKw =
            -Min3(steppedDeficitKw + 35 * FINE, fiveKw, soc - reserveSoc)
        ELSE IF steppedInStorm /\ soc < Max(reserveSoc, 85 * SOC_UNITS_PER_PCT)
        THEN
          result.step.batteryKw =
            Min3(steppedDeficitKw + 220 * FINE, fiveKw, fullSoc - soc)
        ELSE
          /\ result.step = simulateSelfPoweredStep(pushed, soc, reserveSoc)
          /\ result.step.batteryKw = selfPoweredBatteryKw(pushed, soc)

\* a sample in both the peak and the storm-watch window, SOC above reserve
\* and below the storm target: the step discharges
C24_Witness ==
  /\ replayStepMade
  /\ calledModeUsed = "Time-Based Control"
  /\ steppedInPeak
  /\ steppedInStorm
  /\ result.socBefore > reserveSoc
  /\ result.socBefore < 85 * SOC_UNITS_PER_PCT
  /\ result.step.batteryKw < 0

\* C25: after every step of a replay, in either mode and for any reserve
\* override and any starting SOC, the simulated SOC is within
\* [reserveUsed, 100], the applied battery power is within [-5, +5] kW, and
\* the step's grid power equals homeKw - solarKw + applied battery power.
C25_StepWithinBounds ==
  replayStepMade =>
    /\ socPct >= reserveSoc
    /\ socPct <= fullSoc
    /\ result.step.nextSocPct = socPct
    /\ result.step.batteryKw >= -fiveKw
    /\ result.step.batteryKw <= fiveKw
    /\ result.step.gridKw =
         (pushed.homeKw - pushed.solarKw) * FINE + result.step.batteryKw

\* the first step of a window whose starting SOC is below the overridden
\* reserve
C25_Witness ==
  /\ replayStepMade
  /\ index = 1
  /\ call.overrides.backupReservePct # <<>>
  /\ result.socBefore < reserveSoc
  /\ socPct >= reserveSoc

\* the storm-watch charge tier for a running SOC, in fine units
stormTierKw(socUnits) ==
  IF socUnits < 70 * SOC_UNITS_PER_PCT THEN 280 * FINE
  ELSE IF socUnits < 77 * SOC_UNITS_PER_PCT THEN 190 * FINE
  ELSE 90 * FINE

\* C26: for a sample inside the storm-watch window while storm watch is
\* enabled the generator's target is a charge of 2.8 kW when the running SOC
\* is below 70, 1.9 kW when it is in [70, 77) and 0.9 kW otherwise,
\* whatever solar and home are and also inside the peak window; the stored
\* batteryKw of every such sample is >= 0.
C26_StormChargeTiers ==
  [][ ( /\ index' = index + 1
        /\ storyDayContext.stormWatchEnabled
        /\ isInWindow(index * SAMPLE_STEP_MINUTES,
                      storyDayContext.stormWatchWindow) )
      => /\ pushed'.ts = index * SAMPLE_STEP_MINUTES
         /\ batteryTargetKw(pushed'.ts, socPct, pushed'.solarKw,
                            pushed'.homeKw) = stormTierKw(socPct)
         /\ pushed'.batteryKw =
              RoundDiv(Min(stormTierKw(socPct),
                           100 * SOC_UNITS_PER_PCT - socPct), FINE)
         /\ pushed'.batteryKw >= 0 ]_vars

\* a sample inside both the storm-watch and the peak window, charged at the
\* middle tier while the home load is above solar
C26_Witness ==
  /\ isInWindow(pushed.ts, storyDayContext.stormWatchWindow)
  /\ isInWindow(pushed.ts, storyDayContext.peakWindow)
  /\ pushed.homeKw > pushed.solarKw
  /\ pushed.batteryKw = 190

\* C27: a sample the generator pushes outside the storm-watch window with
\* batteryKw > 0 has batteryKw <= max(0, solarKw - homeKw), hence
\* gridKw <= 0: outside the storm window the battery never charges from the
\* grid.
C27_NoGridChargeOutsideStorm ==
  ( /\ pushed # NoSample
    /\ ~( /\ pushed.ts >= storyDayContext.stormWatchWindow.startMin
          /\ pushed.ts < storyDayContext.stormWatchWindow.endMin )
    /\ pushed.batteryKw > 0 )
  => /\ pushed.batteryKw <= Max(0, pushed.solarKw - pushed.homeKw)
     /\ pushed.gridKw <= 0

\* a sample of the solar hours, charging from part of the surplus and
\* exporting the rest
C27_Witness ==
  /\ pushed # NoSample
  /\ pushed.ts < storyDayContext.stormWatchWindow.startMin
  /\ pushed.batteryKw > 0
  /\ pushed.batteryKw < pushed.solarKw - pushed.homeKw
  /\ pushed.gridKw < 0

\* the last handler emitted a pair through onChange
rangeEmitted == call.op = "onChange"

\* C28: from a valid range and after any sequence of drag updates on either
\* thumb, in any interleaving, every (start, end) pair the slider emits
\* through onChange satisfies min <= start, end <= max,
\* end - start >= minGap (30 minutes), and both values are multiples of the
\* step (5 minutes).
C28_EmittedRangeValid ==
  rangeEmitted =>
    /\ sliderProps.min <= call.startValue
    /\ call.endValue <= sliderProps.max
    /\ call.endValue - call.startValue >= sliderProps.minGap
    /\ call.startValue % sliderProps.step = 0
    /\ call.endValue % sliderProps.step = 0

\* C29: at every replay step, for any reserve override and any window, the
\* SOC change equals the integrated applied battery power
\* (nextSoc - soc = batteryKw x (5/60) / 13.5 x 100), so the replayed SOC
\* never rises without a matching battery charge; and
\* replay.endSoc - replay.startSoc equals
\* (total battery charge - total battery discharge) / 13.5 x 100 up to
\* rounding (0.1 % of SOC and 0.01 kWh of energy), also when the window's
\* starting SOC is below the overridden reserve.
C29_ReplayEnergyConservation ==
  /\ replayStepMade =>
       result.step.nextSocPct - result.socBefore = result.step.batteryKw
  /\ result.op = "replayWindow" =>
       LET replay == result.replay.replay
           socTenths == replay.endSoc - replay.startSoc
           netCentiKwh == replay.totalBatteryChargeKwhApprox
                          - replay.totalBatteryDischargeKwhApprox
       IN  Abs(socTenths * 135 - netCentiKwh * 100) <= 135 + 100

\* what the claim compares of an event: title, timestamp and reasons
eventFace(event) ==
  [title |-> event.title, tsMin |-> event.tsMin,
   reasons |-> reasonsOf(event)]

facesOf(events) == [i \in 1 .. Len(events) |-> eventFace(events[i])]

\* C30: buildExplainTimeline(samples, context, a, b) returns the same events
\* (same titles, reasons and timestamps) as
\* buildExplainTimeline(samples, context, b, a) for all a, b: the overlap
\* detection and the timestamp clamping use the normalized bounds, not the
\* raw argument order.
C30_ReversedWindowSameEvents ==
  timelineReturned =>
    facesOf(result.events) =
      facesOf(buildExplainTimeline(samples, context, call.endMin,
                                   call.startMin))

=============================================================================
